---------------------------- MODULE Spec2Model ----------------------------
(***************************************************************************)
(* Response normalisation pipeline of the conversational analytics client: *)
(* ChatHandler._process_chat_response consumes the backend's stream of     *)
(* protocol messages, ChatHandler._parse_message fans each one out into    *)
(* display messages, ChatHandler._parse_data_result decodes tabular        *)
(* payloads and ChatHandler._extract_chart_from_text pulls an inlined      *)
(* chart specification out of prose (src/src/chat_handler.py).  The chat    *)
(* page (src/app.py) stores the display messages of each turn in the        *)
(* session history and draws them, on first display and again on every     *)
(* rerun of the script; chart specifications pass through _clean_vega_spec *)
(* (src/src/visualization.py) on their way to the renderer.                *)
(*                                                                         *)
(* Representation.  A Python str is a sequence of lexical tokens (the      *)
(* empty sequence is the empty string).  A Python dict is an ordered       *)
(* mapping: a sequence of <<key, value>> pairs with distinct keys, in      *)
(* insertion order.  An Optional field is a sequence of length 0 (None)    *)
(* or 1.  Scalar cell values are tagged strings ("str:9" is the string     *)
(* "9", "num:9" the number 9), so that values of different Python types    *)
(* stay different.                                                         *)
(***************************************************************************)
EXTENDS Integers, Sequences, FiniteSets, TLC

VARIABLES
    stream,     \* the protocol messages the backend delivers, in order
    failure,    \* how the backend fails, if it does: [kind, after, text]
    pc,         \* position in _process_chat_response: start, iterating, done
    pos,        \* number of stream elements consumed so far
    messages,   \* the list _process_chat_response builds and returns
    responses,  \* what each coming prompt will get from the chat handler
    settings,   \* enable_chart_rendering, show_sql, show_reasoning
    session,    \* st.session_state.messages
    drawn,      \* the draw calls of the current script run, in order
    rpc,        \* position in the page script: off, rerun, input
    turn,       \* number of prompts submitted so far
    caller_spec,  \* the object a caller hands to _clean_vega_spec
    cleaned,    \* what successive calls of _clean_vega_spec returned
    session_state,      \* st.session_state of each browser session
    conversation_mode,  \* settings.conversation_mode of the one process
    conversations,      \* the agent each conversation of the backend is for
    request     \* the last ChatRequest a session sent, and their count

\* the state of ChatHandler._process_chat_response
chatVars == <<stream, failure, pc, pos, messages>>

\* the state of the chat page
pageVars == <<responses, settings, session, drawn, rpc, turn>>

\* the state of a caller of _clean_vega_spec
callVars == <<caller_spec, cleaned>>

\* the state of the sessions of one process, and of their backend
sessVars == <<session_state, conversation_mode, conversations, request>>

vars == <<chatVars, pageVars, callVars, sessVars>>

-----------------------------------------------------------------------------
(* Bounds of the model *)

\* longest stream of the multi-message family
MaxStream == 2
\* rows of one data result, primary and formatted together
MaxRows == 2
\* keys of one cell wrapper
MaxTags == 2
\* fragments of one text part
MaxTextParts == 2

-----------------------------------------------------------------------------
(* Python values *)

\* None, as a cell value
NULL == "None"

\* Optional[...]: None and a present value
None == <<>>

Some(v) == <<v>>

\* an optional value that is given and not empty (truthy)
Populated(opt) == opt # None /\ opt[1] # <<>>

SeqsUpTo(S, n) == UNION {[1..k -> S] : k \in 0..n}

Injective(s) == \A i, j \in 1..Len(s) : s[i] = s[j] => i = j

\* list(d.keys())
Keys(d) == [i \in 1..Len(d) |-> d[i][1]]

\* k in d
Has(d, k) == \E i \in 1..Len(d) : d[i][1] = k

\* d.get(k, default)
Get(d, k, default) ==
    IF Has(d, k) THEN d[CHOOSE i \in 1..Len(d) : d[i][1] = k][2] ELSE default

\* d[k] = v on a dict that may or may not hold k
Put(d, k, v) ==
    IF Has(d, k)
    THEN [i \in 1..Len(d) |-> IF d[i][1] = k THEN <<k, v>> ELSE d[i]]
    ELSE Append(d, <<k, v>>)

-----------------------------------------------------------------------------
(* Tabular Result Decoder: ChatHandler._parse_data_result *)

\* the tags _extract_proto_value probes, in its order
TypedKeys == <<"stringValue", "numberValue", "boolValue", "integerValue">>

\* faulty variant: numberValue probed before stringValue
ExtractProtoValueNumberFirst(val_wrapper) ==
    IF val_wrapper = <<>> THEN NULL
    ELSE IF Has(val_wrapper, "numberValue") THEN Get(val_wrapper, "numberValue", NULL)
    ELSE IF \E i \in 1..Len(TypedKeys) : Has(val_wrapper, TypedKeys[i])
         THEN Get(val_wrapper,
                  TypedKeys[CHOOSE i \in 1..Len(TypedKeys) :
                      /\ Has(val_wrapper, TypedKeys[i])
                      /\ \A j \in 1..(i - 1) : ~Has(val_wrapper, TypedKeys[j])],
                  NULL)
    ELSE IF Has(val_wrapper, "nullValue") THEN NULL
    ELSE val_wrapper[1][2]

\* _extract_proto_value: the for loop returns at the first key of TypedKeys
\* the wrapper holds
ExtractProtoValue(val_wrapper) ==
    IF val_wrapper = <<>> THEN NULL
    ELSE IF \E i \in 1..Len(TypedKeys) : Has(val_wrapper, TypedKeys[i])
         THEN Get(val_wrapper,
                  TypedKeys[CHOOSE i \in 1..Len(TypedKeys) :
                      /\ Has(val_wrapper, TypedKeys[i])
                      /\ \A j \in 1..(i - 1) : ~Has(val_wrapper, TypedKeys[j])],
                  NULL)
    ELSE IF Has(val_wrapper, "nullValue") THEN NULL
    ELSE IF Len(val_wrapper) = 0 THEN NULL
    ELSE val_wrapper[1][2]

\* f"col_{i}" for the i-th schema field, i counted from 0
ColDefault(i) == <<"col_0", "col_1", "col_2", "col_3">>[i + 1]

\* [f.get("name", f"col_{i}") for i, f in enumerate(fields)]
SchemaColumns(fields) ==
    [i \in 1..Len(fields) |-> Get(fields[i], "name", ColDefault(i - 1))]

\* isinstance(row, dict)
IsDict(row) == row.shape \in {"wrapped", "badfields", "plain"}

\* "fields" in row
HasFieldsKey(row) == row.shape \in {"wrapped", "badfields"}

\* the body of the inner for loop over result["columns"] for a row holding
\* "fields": one unwrapped cell per column, {} standing for a missing column
WrappedRowValues(row, columns) ==
    [j \in 1..Len(columns) |-> ExtractProtoValue(Get(row.fields, columns[j], <<>>))]

\* [row.get(c) for c in result["columns"]]
PlainRowValues(row, columns) ==
    [j \in 1..Len(columns) |-> Get(row.items, columns[j], NULL)]

\* faulty variant: the plain-mapping branch keeps only the values the row holds
DecodeRowDroppingMissing(row, result, acceptLists) ==
    IF IsDict(row) THEN
        IF HasFieldsKey(row) THEN
            IF row.shape = "badfields" /\ result.columns # <<>>
            THEN [result EXCEPT !.ok = FALSE]
            ELSE [result EXCEPT !.rows = Append(@, WrappedRowValues(row, result.columns))]
        ELSE
            LET columns == IF result.columns = <<>> THEN Keys(row.items)
                           ELSE result.columns
            IN  [result EXCEPT !.columns = columns,
                               !.rows = Append(@, [j \in 1..Len(row.items) |-> row.items[j][2]])]
    ELSE IF row.shape = "list" /\ acceptLists THEN
        [result EXCEPT !.rows = Append(@, row.cells)]
    ELSE result

\* one iteration of "for row in data_rows" (acceptLists) or of
\* "for row in formatted_rows" (no list branch there); ok = FALSE once
\* row["fields"].get has raised, which takes a column to look up
DecodeRow(row, result, acceptLists) ==
    IF IsDict(row) THEN
        IF HasFieldsKey(row) THEN
            IF row.shape = "badfields" /\ result.columns # <<>>
            THEN [result EXCEPT !.ok = FALSE]
            ELSE [result EXCEPT !.rows = Append(@, WrappedRowValues(row, result.columns))]
        ELSE
            LET columns == IF result.columns = <<>> THEN Keys(row.items)
                           ELSE result.columns
            IN  [result EXCEPT !.columns = columns,
                               !.rows = Append(@, PlainRowValues(row, columns))]
    ELSE IF row.shape = "list" /\ acceptLists THEN
        [result EXCEPT !.rows = Append(@, row.cells)]
    ELSE result

RECURSIVE DecodeRows(_, _, _, _)
\* the for loop over the rows of one field, from row i on
DecodeRows(rows, i, result, acceptLists) ==
    IF ~result.ok \/ i > Len(rows) THEN result
    ELSE DecodeRows(rows, i + 1, DecodeRow(rows[i], result, acceptLists), acceptLists)

\* MessageToDict(data_result._pb): lowerCamelCase keys; raises on a payload
\* it cannot serialise
MessageToDictData(data_result) ==
    [raised |-> ~data_result.convertible,
     schema |-> [fields |-> data_result.schema.fields],
     data |-> data_result.data,
     formattedData |-> data_result.formatted_data]

\* faulty variant: the formatted rows are also tried when the primary rows
\* hold nothing but nulls
ParseDataResultFallbackOnNulls(data_result) ==
    LET dr_dict == MessageToDictData(data_result)
        fields == dr_dict.schema.fields
        result0 == [ok |-> TRUE,
                    columns |-> IF fields # <<>> THEN SchemaColumns(fields) ELSE <<>>,
                    rows |-> <<>>]
        result1 == DecodeRows(dr_dict.data, 1, result0, TRUE)
        allNull == \A i \in 1..Len(result1.rows) :
                       \A j \in 1..Len(result1.rows[i]) : result1.rows[i][j] = NULL
        result2 == IF result1.ok /\ allNull
                   THEN DecodeRows(dr_dict.formattedData, 1,
                                   [result1 EXCEPT !.rows = <<>>], FALSE)
                   ELSE result1
    IN  IF dr_dict.raised \/ ~result2.ok THEN None
        ELSE IF result2.columns # <<>> \/ result2.rows # <<>>
             THEN Some([columns |-> result2.columns, rows |-> result2.rows])
        ELSE None

\* faulty variant: a table without rows is suppressed as well
ParseDataResultRowsOnly(data_result) ==
    LET dr_dict == MessageToDictData(data_result)
        fields == dr_dict.schema.fields
        result0 == [ok |-> TRUE,
                    columns |-> IF fields # <<>> THEN SchemaColumns(fields) ELSE <<>>,
                    rows |-> <<>>]
        result1 == DecodeRows(dr_dict.data, 1, result0, TRUE)
        result2 == IF result1.ok /\ result1.rows = <<>>
                   THEN DecodeRows(dr_dict.formattedData, 1, result1, FALSE)
                   ELSE result1
    IN  IF dr_dict.raised \/ ~result2.ok THEN None
        ELSE IF result2.rows # <<>>
             THEN Some([columns |-> result2.columns, rows |-> result2.rows])
        ELSE None

\* _parse_data_result: None, or the table {"columns": ..., "rows": ...}
ParseDataResult(data_result) ==
    LET dr_dict == MessageToDictData(data_result)
        fields == dr_dict.schema.fields
        result0 == [ok |-> TRUE,
                    columns |-> IF fields # <<>> THEN SchemaColumns(fields) ELSE <<>>,
                    rows |-> <<>>]
        result1 == DecodeRows(dr_dict.data, 1, result0, TRUE)
        result2 == IF result1.ok /\ result1.rows = <<>>
                   THEN DecodeRows(dr_dict.formattedData, 1, result1, FALSE)
                   ELSE result1
    IN  IF dr_dict.raised \/ ~result2.ok THEN None
        ELSE IF result2.columns # <<>> \/ result2.rows # <<>>
             THEN Some([columns |-> result2.columns, rows |-> result2.rows])
        ELSE None

-----------------------------------------------------------------------------
(* Embedded-Spec Extractor: ChatHandler._extract_chart_from_text *)

\* lexical tokens of a response text
WORD == "word"

SPACE == " "

\* "Here's the chart:", the phrase the final cleanup pattern names
LEAD == "Here's the chart:"

\* a lead-in sentence ending in a colon that the cleanup pattern does not
\* name: it has no "chart" in it
TREND == "Here's the trend:"

\* a fence delimiter, with its optional json / vega-lite tag
FENCE == "[fence]"

\* a run that opens a brace and holds the mark key, and never closes it
OPEN == "{open"

\* brace-balanced runs: two chart objects, the second one with a schema key,
\* an object without chart keys, and a run that holds the mark key but is
\* not JSON
JsonTokens == {"{chart}", "{chart$}", "{other}", "{bad}"}

\* the tokens a "{" starts
BraceTokens == JsonTokens \cup {OPEN}

Tokens == {WORD, SPACE, LEAD, TREND, FENCE} \cup BraceTokens

SchemaV5 == "https://vega.github.io/schema/vega-lite/v5.json"

\* what json.loads returns for each run it can parse
ParsedJson(tok) ==
    CASE tok = "{chart}" -> <<<<"mark", "bar">>, <<"encoding", "enc">>>>
      [] tok = "{chart$}" -> <<<<"$schema", "v4.json">>, <<"mark", "line">>>>
      [] OTHER -> <<<<"status", "ok">>>>

\* the quick check for the literal mark / encoding keys, for a single token
HasMarker(tok) == tok \in {"{chart}", "{chart$}", "{bad}", OPEN}

\* a "." somewhere in the token (the schema URL of "{chart$}")
HasPeriod(tok) == tok = "{chart$}"

RECURSIVE LStrip(_)
LStrip(s) == IF s # <<>> /\ Head(s) = SPACE THEN LStrip(Tail(s)) ELSE s

RECURSIVE RStrip(_)
RStrip(s) ==
    IF s # <<>> /\ s[Len(s)] = SPACE THEN RStrip(SubSeq(s, 1, Len(s) - 1)) ELSE s

\* s.strip()
Strip(s) == LStrip(RStrip(s))

\* json.loads(s): leading and trailing whitespace allowed around one document
JsonLoads(s) ==
    LET t == Strip(s)
    IN  IF Len(t) = 1 /\ t[1] \in JsonTokens \ {"{bad}"}
        THEN [ok |-> TRUE, value |-> ParsedJson(t[1])]
        ELSE [ok |-> FALSE, value |-> <<>>]

\* isinstance(parsed, dict) and ("encoding" in parsed or "mark" in parsed)
IsChartDict(parsed) == Has(parsed, "encoding") \/ Has(parsed, "mark")

\* the index of the first non-space token at or after i (Len + 1 if none)
SkipSpace(s, i) ==
    IF \E k \in i..Len(s) : s[k] # SPACE
    THEN CHOOSE k \in i..Len(s) : s[k] # SPACE /\ \A l \in i..(k - 1) : s[l] = SPACE
    ELSE Len(s) + 1

\* e closes a fenced candidate: only spaces separate it from a fence
ClosesFence(s, e) == SkipSpace(s, e + 1) <= Len(s) /\ s[SkipSpace(s, e + 1)] = FENCE

\* the ends e of the lazy \{.+?\} group opened at j
FenceEnds(s, j) == {e \in j..Len(s) : s[e] \in JsonTokens /\ ClosesFence(s, e)}

\* fenced_pattern matches with its opening fence at i
FenceAt(s, i) ==
    /\ s[i] = FENCE
    /\ SkipSpace(s, i + 1) <= Len(s)
    /\ s[SkipSpace(s, i + 1)] \in BraceTokens
    /\ FenceEnds(s, SkipSpace(s, i + 1)) # {}

\* for a match at i: [from, to] of group 1 and the index of the closing fence
FenceSpan(s, i) ==
    LET j == SkipSpace(s, i + 1)
        e == CHOOSE e \in FenceEnds(s, j) : \A f \in FenceEnds(s, j) : e <= f
    IN  [from |-> j, to |-> e, close |-> SkipSpace(s, e + 1)]

RECURSIVE FencedMatches(_, _)
\* re.findall(fenced_pattern, text): group 1 of each non-overlapping match
FencedMatches(s, i) ==
    IF i > Len(s) THEN <<>>
    ELSE IF FenceAt(s, i)
         THEN <<SubSeq(s, FenceSpan(s, i).from, FenceSpan(s, i).to)>>
              \o FencedMatches(s, FenceSpan(s, i).close + 1)
    ELSE FencedMatches(s, i + 1)

RECURSIVE RemoveFenced(_, _, _)
\* the two replace calls and the re.sub: every fenced block holding match
RemoveFenced(s, i, match) ==
    IF i > Len(s) THEN <<>>
    ELSE IF /\ s[i] = FENCE
            /\ SkipSpace(s, i + 1) + Len(match) - 1 <= Len(s)
            /\ SubSeq(s, SkipSpace(s, i + 1), SkipSpace(s, i + 1) + Len(match) - 1) = match
            /\ ClosesFence(s, SkipSpace(s, i + 1) + Len(match) - 1)
         THEN RemoveFenced(s, SkipSpace(s, SkipSpace(s, i + 1) + Len(match)) + 1, match)
    ELSE <<s[i]>> \o RemoveFenced(s, i + 1, match)

RECURSIVE Strategy1(_, _, _)
\* the loop over fenced_matches, from match k on
Strategy1(text, matches, k) ==
    IF k > Len(matches) THEN [text |-> text, chart_spec |-> None]
    ELSE LET parsed == JsonLoads(matches[k])
         IN  IF parsed.ok /\ IsChartDict(parsed.value)
             THEN [text |-> RemoveFenced(text, 1, matches[k]),
                   chart_spec |-> Some(parsed.value)]
             ELSE Strategy1(text, matches, k + 1)

RECURSIVE Strategy2(_, _)
\* the loop over brace_positions, from token p on
Strategy2(text, p) ==
    IF p > Len(text) THEN [text |-> text, chart_spec |-> None]
    ELSE IF text[p] \notin BraceTokens THEN Strategy2(text, p + 1)
    ELSE IF \A k \in p..Len(text) : ~HasMarker(text[k]) THEN Strategy2(text, p + 1)
    ELSE LET whole == JsonLoads(SubSeq(text, p, Len(text)))
             candidate == JsonLoads(<<text[p]>>)
         IN  IF whole.ok
             THEN IF IsChartDict(whole.value)
                  THEN [text |-> RStrip(SubSeq(text, 1, p - 1)),
                        chart_spec |-> Some(whole.value)]
                  ELSE Strategy2(text, p + 1)
             ELSE IF candidate.ok /\ IsChartDict(candidate.value)
                  THEN [text |-> Strip(SubSeq(text, 1, p - 1)
                                       \o SubSeq(text, p + 1, Len(text))),
                        chart_spec |-> Some(candidate.value)]
             ELSE Strategy2(text, p + 1)

\* the token ends with ":"
EndsWithColon(tok) == tok \in {LEAD, TREND}

\* the final re.sub: from the leftmost lead-in that reaches the colon ending
\* the text without crossing a "."
CleanLeadIn(text) ==
    LET t == RStrip(text)
        starts == {l \in 1..Len(t) :
                      /\ t[l] = LEAD
                      /\ \A k \in (l + 1)..(Len(t) - 1) : ~HasPeriod(t[k])}
    IN  IF t # <<>> /\ EndsWithColon(t[Len(t)]) /\ starts # {}
        THEN SubSeq(t, 1, (CHOOSE l \in starts : \A m \in starts : l <= m) - 1)
        ELSE text

\* _extract_chart_from_text: (cleaned text, chart spec or None)
ExtractChartFromText(text) ==
    LET s1 == Strategy1(text, FencedMatches(text, 1), 1)
        s2 == IF s1.chart_spec = None THEN Strategy2(s1.text, 1) ELSE s1
    IN  [text |-> Strip(CleanLeadIn(s2.text)), chart_spec |-> s2.chart_spec]

-----------------------------------------------------------------------------
(* Streamed Message Parser: ChatHandler._parse_message *)

\* ChatMessage(role="assistant", content=..., message_type=...), the other
\* fields at their dataclass defaults
ChatMessage(content, message_type) ==
    [role |-> "assistant", content |-> content, message_type |-> message_type,
     data |-> None, chart_spec |-> None, chart_image |-> None, sql_query |-> None]

\* " ".join(parts)
RECURSIVE Join(_)
Join(parts) ==
    IF parts = <<>> THEN <<>>
    ELSE IF Len(parts) = 1 THEN parts[1]
    ELSE parts[1] \o <<SPACE>> \o Join(Tail(parts))

\* if '$schema' not in spec: spec['$schema'] = <the v5 schema URL>
EnsureSchema(spec) ==
    IF Has(spec, "$schema") THEN spec ELSE Put(spec, "$schema", SchemaV5)

\* the TEXT section
ParseText(sys_msg) ==
    IF sys_msg.text = None \/ sys_msg.text[1].parts = <<>> THEN <<>>
    ELSE LET text == Join(sys_msg.text[1].parts)
             extracted == ExtractChartFromText(text)
             clean_text == extracted.text
             text_chart_spec == extracted.chart_spec
         IN  IF Strip(text) = <<>> THEN <<>>
             ELSE (IF text_chart_spec # None /\ text_chart_spec[1] # <<>>
                   THEN <<[ChatMessage(<<>>, "chart")
                             EXCEPT !.chart_spec = Some(EnsureSchema(text_chart_spec[1]))]>>
                   ELSE <<>>)
                  \o
                  (IF Strip(clean_text) # <<>>
                   THEN <<ChatMessage(clean_text, "text")>>
                   ELSE <<>>)

\* faulty variant: the data message carries no SQL
ParseDataNoSql(sys_msg) ==
    IF sys_msg.data = None THEN <<>>
    ELSE LET data_msg == sys_msg.data[1]
             sql_query == IF data_msg.generated_sql # <<>>
                          THEN Some(data_msg.generated_sql) ELSE None
             data_dict == IF data_msg.result # None
                          THEN ParseDataResult(data_msg.result[1]) ELSE None
         IN  (IF sql_query # None
              THEN <<[ChatMessage(sql_query[1], "sql") EXCEPT !.sql_query = sql_query]>>
              ELSE <<>>)
             \o
             (IF data_dict # None
              THEN <<[ChatMessage(<<>>, "data") EXCEPT !.data = data_dict]>>
              ELSE <<>>)

\* the DATA section: the sql message, then the data message
ParseData(sys_msg) ==
    IF sys_msg.data = None THEN <<>>
    ELSE LET data_msg == sys_msg.data[1]
             sql_query == IF data_msg.generated_sql # <<>>
                          THEN Some(data_msg.generated_sql) ELSE None
             data_dict == IF data_msg.result # None
                          THEN ParseDataResult(data_msg.result[1]) ELSE None
         IN  (IF sql_query # None
              THEN <<[ChatMessage(sql_query[1], "sql") EXCEPT !.sql_query = sql_query]>>
              ELSE <<>>)
             \o
             (IF data_dict # None
              THEN <<[ChatMessage(<<>>, "data")
                        EXCEPT !.data = data_dict, !.sql_query = sql_query]>>
              ELSE <<>>)

\* MessageToDict(chart_result._pb): lowerCamelCase keys; raises on a config
\* it cannot serialise
MessageToDictChart(chart_result) ==
    [raised |-> ~chart_result.convertible,
     vegaConfig |-> chart_result.vega_config]

\* faulty variant: the try covers the whole section, so a config that cannot be
\* serialised takes the image with it
ParseChartAbortOnRaise(sys_msg) ==
    IF sys_msg.chart = None \/ sys_msg.chart[1].result = None THEN <<>>
    ELSE LET chart_result == sys_msg.chart[1].result[1]
             cr_dict == MessageToDictChart(chart_result)
             chart_spec == cr_dict.vegaConfig
         IN  IF chart_result.vega_config # <<>> /\ cr_dict.raised THEN <<>>
             ELSE
             (IF chart_result.vega_config # <<>> /\ chart_spec # <<>>
              THEN <<[ChatMessage(<<>>, "chart")
                        EXCEPT !.chart_spec = Some(EnsureSchema(chart_spec))]>>
              ELSE <<>>)
             \o
             (IF chart_result.image.data # <<>>
              THEN <<[ChatMessage(<<>>, "chart")
                        EXCEPT !.chart_image = Some(chart_result.image.data)]>>
              ELSE <<>>)

\* faulty variant: spec and image travel in one chart message
ParseChartMerged(sys_msg) ==
    IF sys_msg.chart = None \/ sys_msg.chart[1].result = None THEN <<>>
    ELSE LET chart_result == sys_msg.chart[1].result[1]
             cr_dict == MessageToDictChart(chart_result)
             chart_spec == cr_dict.vegaConfig
             has_spec == chart_result.vega_config # <<>> /\ ~cr_dict.raised
                         /\ chart_spec # <<>>
             has_image == chart_result.image.data # <<>>
         IN  IF has_spec \/ has_image
             THEN <<[ChatMessage(<<>>, "chart")
                       EXCEPT !.chart_spec = IF has_spec
                                             THEN Some(EnsureSchema(chart_spec))
                                             ELSE None,
                              !.chart_image = IF has_image
                                              THEN Some(chart_result.image.data)
                                              ELSE None]>>
             ELSE <<>>

\* the CHART section: the vector spec inside its try, then the image
ParseChart(sys_msg) ==
    IF sys_msg.chart = None \/ sys_msg.chart[1].result = None THEN <<>>
    ELSE LET chart_result == sys_msg.chart[1].result[1]
             cr_dict == MessageToDictChart(chart_result)
             chart_spec == cr_dict.vegaConfig
         IN  (IF chart_result.vega_config # <<>> /\ ~cr_dict.raised /\ chart_spec # <<>>
              THEN <<[ChatMessage(<<>>, "chart")
                        EXCEPT !.chart_spec = Some(EnsureSchema(chart_spec))]>>
              ELSE <<>>)
             \o
             (IF chart_result.image.data # <<>>
              THEN <<[ChatMessage(<<>>, "chart")
                        EXCEPT !.chart_image = Some(chart_result.image.data)]>>
              ELSE <<>>)

\* the ANALYSIS section; str(progress_event) is the event's text
ParseAnalysis(sys_msg) ==
    IF sys_msg.analysis # None /\ sys_msg.analysis[1].progress_event # <<>>
    THEN <<ChatMessage(sys_msg.analysis[1].progress_event, "reasoning")>>
    ELSE <<>>

\* the ERROR section
ParseError(sys_msg) ==
    IF sys_msg.error # None /\ sys_msg.error[1].text # <<>>
    THEN <<ChatMessage(sys_msg.error[1].text, "error")>>
    ELSE <<>>

\* faulty variant: the chart section runs before the data section
ParseMessageChartFirst(msg) ==
    IF msg.user_message.text # <<>> THEN <<>>
    ELSE IF msg.system_message = None THEN <<>>
    ELSE LET sys_msg == msg.system_message[1]
         IN  ParseText(sys_msg) \o ParseChart(sys_msg) \o ParseData(sys_msg)
             \o ParseAnalysis(sys_msg) \o ParseError(sys_msg)

\* faulty variant: user echoes are not skipped
ParseMessageNoEchoCheck(msg) ==
    IF msg.system_message = None THEN <<>>
    ELSE LET sys_msg == msg.system_message[1]
         IN  ParseText(sys_msg) \o ParseData(sys_msg) \o ParseChart(sys_msg)
             \o ParseAnalysis(sys_msg) \o ParseError(sys_msg)

\* _parse_message: the display messages of one protocol message
ParseMessage(msg) ==
    IF msg.user_message.text # <<>> THEN <<>>
    ELSE IF msg.system_message = None THEN <<>>
    ELSE LET sys_msg == msg.system_message[1]
         IN  ParseText(sys_msg) \o ParseData(sys_msg) \o ParseChart(sys_msg)
             \o ParseAnalysis(sys_msg) \o ParseError(sys_msg)

-----------------------------------------------------------------------------
(* ChatHandler._process_chat_response *)

\* faulty variant: the new messages go in front
ExtendInFront(list, parsed_msgs) == parsed_msgs \o list

\* messages.extend(parsed_msgs)
Extend(list, parsed_msgs) == list \o parsed_msgs

\* the ChatMessage of the except branch: content = f"Error: {error_msg}"
StreamErrorMessage(error_msg) == ChatMessage(<<"Error: ">> \o error_msg, "error")

\* response_stream = self.client.chat(request=request) returns the stream
ChatCall ==
    /\ pc = "start"
    /\ failure.kind # "call"
    /\ pc' = "iterating"
    /\ UNCHANGED <<stream, failure, pos, messages>>
    /\ UNCHANGED <<pageVars, callVars, sessVars>>

\* self.client.chat raises: the except branch appends the error message
ChatCallRaises ==
    /\ pc = "start"
    /\ failure.kind = "call"
    /\ messages' = Append(messages, StreamErrorMessage(failure.text))
    /\ pc' = "done"
    /\ UNCHANGED <<stream, failure, pos>>
    /\ UNCHANGED <<pageVars, callVars, sessVars>>

\* one iteration of "for response_msg in response_stream"
NextMessage ==
    /\ pc = "iterating"
    /\ pos < Len(stream)
    /\ ~(failure.kind = "stream" /\ failure.after = pos)
    /\ messages' = Extend(messages, ParseMessage(stream[pos + 1]))
    /\ pos' = pos + 1
    /\ UNCHANGED <<stream, failure, pc>>
    /\ UNCHANGED <<pageVars, callVars, sessVars>>

\* faulty variant: the failure is swallowed and nothing is appended
StreamRaisesSilently ==
    /\ pc = "iterating"
    /\ failure.kind = "stream"
    /\ failure.after = pos
    /\ pc' = "done"
    /\ UNCHANGED <<stream, failure, pos, messages>>
    /\ UNCHANGED <<pageVars, callVars, sessVars>>

\* fetching the next element raises: the except branch appends the error
\* message and the loop is left
StreamRaises ==
    /\ pc = "iterating"
    /\ failure.kind = "stream"
    /\ failure.after = pos
    /\ messages' = Append(messages, StreamErrorMessage(failure.text))
    /\ pc' = "done"
    /\ UNCHANGED <<stream, failure, pos>>
    /\ UNCHANGED <<pageVars, callVars, sessVars>>

\* the stream is exhausted: return messages
StreamEnd ==
    /\ pc = "iterating"
    /\ pos = Len(stream)
    /\ ~(failure.kind = "stream" /\ failure.after = pos)
    /\ pc' = "done"
    /\ UNCHANGED <<stream, failure, pos, messages>>
    /\ UNCHANGED <<pageVars, callVars, sessVars>>

Next == ChatCall \/ ChatCallRaises \/ NextMessage \/ StreamRaises \/ StreamEnd

-----------------------------------------------------------------------------
(* Chart-Spec Normalizer: _clean_vega_spec and _fix_temporal_data          *)
(* (src/src/visualization.py).  In a chart specification the transform     *)
(* list is a sequence of steps [shape, keys], encoding maps a channel to   *)
(* an axis [shape, items], data.values is a sequence of rows [shape,       *)
(* items] and a cell is [num, v]: num tells an int or float from any       *)
(* other value, and a number is counted in units of 10^7, so that 1e8 is   *)
(* 10 and 3e9 is 300.                                                      *)

\* del d[k]
Del(d, k) == SelectSeq(d, LAMBDA kv : kv[1] # k)

\* the values a sort sub-field takes: {}, null, and two that are neither
EMPTY_MAPPING == "{}"

JSON_NULL == "null"

\* the strict bounds of the plausible epoch-seconds range, 1e8 and 3e9
SecondsLow == 10

SecondsHigh == 300

\* seconds to milliseconds
ToMillis == 1000

\* values[:5]
SampleSize == 5

\* the encoding channels whose sort is cleaned
SortChannels == <<"x", "y", "color", "theta">>

\* the encoding channels read for temporal fields
TemporalChannels == <<"x", "y", "color">>

\* any("window" in t or "sort" in t for t in transforms if isinstance(t, dict))
HasWindow(transforms) ==
    \E i \in 1..Len(transforms) :
        /\ transforms[i].shape = "dict"
        /\ \E k \in 1..Len(transforms[i].keys) :
              transforms[i].keys[k] \in {"window", "sort"}

\* faulty variant: only the offending steps are taken out of the list
DropWindowStepsOnly(spec) ==
    IF Has(spec, "transform") /\ HasWindow(Get(spec, "transform", <<>>))
    THEN Put(spec, "transform",
             SelectSeq(Get(spec, "transform", <<>>),
                       LAMBDA t : ~HasWindow(<<t>>)))
    ELSE spec

\* the transform rule: the whole list goes when a step is a window or sort
DropWindowTransform(spec) ==
    IF Has(spec, "transform") /\ HasWindow(Get(spec, "transform", <<>>))
    THEN Del(spec, "transform")
    ELSE spec

\* faulty variant: any falsy sort is deleted, the empty list included
CleanAxisSortFalsy(axis) ==
    IF /\ axis.shape = "dict"
       /\ Has(axis.items, "sort")
       /\ Get(axis.items, "sort", "") \in {EMPTY_MAPPING, JSON_NULL, "[]"}
    THEN [axis EXCEPT !.items = Del(@, "sort")]
    ELSE axis

\* one iteration of the loop over the sort channels, on the axis itself
CleanAxisSort(axis) ==
    IF /\ axis.shape = "dict"
       /\ Has(axis.items, "sort")
       /\ Get(axis.items, "sort", "") \in {EMPTY_MAPPING, JSON_NULL}
    THEN [axis EXCEPT !.items = Del(@, "sort")]
    ELSE axis

\* the loop over ("x", "y", "color", "theta") on the encoding mapping
CleanEncodingSorts(encoding) ==
    [i \in 1..Len(encoding) |->
        IF \E c \in 1..Len(SortChannels) : SortChannels[c] = encoding[i][1]
        THEN <<encoding[i][1], CleanAxisSort(encoding[i][2])>>
        ELSE encoding[i]]

\* the sort rule, applied inside the specification
CleanSorts(spec) ==
    IF Has(spec, "encoding")
    THEN Put(spec, "encoding", CleanEncodingSorts(Get(spec, "encoding", <<>>)))
    ELSE spec

RECURSIVE TemporalFields(_, _)
\* temporal_fields: the field of each of x, y, color whose axis is a mapping
\* of type temporal with a non-empty field, from channel c on
TemporalFields(encoding, c) ==
    IF c > Len(TemporalChannels) THEN <<>>
    ELSE LET axis == Get(encoding, TemporalChannels[c],
                         [shape |-> "dict", items |-> <<>>])
             field == Get(axis.items, "field", "")
         IN  (IF /\ axis.shape = "dict"
                 /\ Get(axis.items, "type", "") = "temporal"
                 /\ field # ""
              THEN <<field>> ELSE <<>>)
             \o TemporalFields(encoding, c + 1)

\* isinstance(row, dict) and isinstance(row.get(field), (int, float))
IsNumericAt(row, field) ==
    /\ row.shape = "dict"
    /\ Has(row.items, field)
    /\ Get(row.items, field, [num |-> FALSE, v |-> 0]).num

\* sample_vals: the numeric values of field in the first SampleSize rows
SampleVals(values, field) ==
    LET head == SubSeq(values, 1, IF Len(values) < SampleSize THEN Len(values)
                                  ELSE SampleSize)
        numeric == SelectSeq(head, LAMBDA row : IsNumericAt(row, field))
    IN  [i \in 1..Len(numeric) |-> Get(numeric[i].items, field, [num |-> TRUE, v |-> 0]).v]

\* faulty variant: the two bounds count as seconds too
LooksLikeSecondsInclusive(sample_vals) ==
    /\ sample_vals # <<>>
    /\ \A i \in 1..Len(sample_vals) :
          SecondsLow <= sample_vals[i] /\ sample_vals[i] <= SecondsHigh

\* sample_vals and all(1e8 < v < 3e9 for v in sample_vals)
LooksLikeSeconds(sample_vals) ==
    /\ sample_vals # <<>>
    /\ \A i \in 1..Len(sample_vals) :
          SecondsLow < sample_vals[i] /\ sample_vals[i] < SecondsHigh

\* faulty variant: only the numbers inside the range are multiplied
ToMillisecondsInRangeOnly(values, field) ==
    [i \in 1..Len(values) |->
        IF /\ IsNumericAt(values[i], field)
           /\ LooksLikeSeconds(<<Get(values[i].items, field, [num |-> TRUE, v |-> 0]).v>>)
        THEN [values[i] EXCEPT !.items =
                 Put(@, field, [num |-> TRUE,
                                v |-> Get(@, field, [num |-> TRUE, v |-> 0]).v * ToMillis])]
        ELSE values[i]]

\* row[field] = row[field] * 1000 for every row holding a number there
ToMilliseconds(values, field) ==
    [i \in 1..Len(values) |->
        IF IsNumericAt(values[i], field)
        THEN [values[i] EXCEPT !.items =
                 Put(@, field, [num |-> TRUE,
                                v |-> Get(@, field, [num |-> TRUE, v |-> 0]).v * ToMillis])]
        ELSE values[i]]

\* faulty variant: every numeric value of a temporal field is multiplied
\* whatever its range
FixFieldAlways(values, field) ==
    IF SampleVals(values, field) # <<>>
    THEN ToMilliseconds(values, field)
    ELSE values

\* faulty variant: a sampled row without a number for the field prevents
\* the conversion
FixFieldAllNumeric(values, field) ==
    IF /\ LooksLikeSeconds(SampleVals(values, field))
       /\ \A i \in 1..Len(values) : i <= SampleSize => IsNumericAt(values[i], field)
    THEN ToMilliseconds(values, field)
    ELSE values

\* one iteration of the loop over temporal_fields
FixField(values, field) ==
    IF LooksLikeSeconds(SampleVals(values, field))
    THEN ToMilliseconds(values, field)
    ELSE values

RECURSIVE FixFields(_, _, _)
\* the loop over temporal_fields, from field k on
FixFields(values, fields, k) ==
    IF k > Len(fields) THEN values
    ELSE FixFields(FixField(values, fields[k]), fields, k + 1)

\* _fix_temporal_data(spec): the rows of data.values are changed in place
FixTemporalData(spec) ==
    LET encoding == Get(spec, "encoding", <<>>)
        data == Get(spec, "data", <<>>)
        values == Get(data, "values", <<>>)
        temporal_fields == TemporalFields(encoding, 1)
    IN  IF values = <<>> THEN spec
        ELSE IF temporal_fields = <<>> THEN spec
        ELSE Put(spec, "data", Put(data, "values", FixFields(values, temporal_fields, 1)))

\* faulty variant: the marker is left as the backend declared it
ForceSchemaKeepDeclared(spec) == spec

\* if "$schema" in spec: spec["$schema"] = <the v5 schema URL>
ForceSchema(spec) ==
    IF Has(spec, "$schema") THEN Put(spec, "$schema", SchemaV5) ELSE spec

\* the four passes of _clean_vega_spec on the object they work on
Normalize(spec) ==
    ForceSchema(FixTemporalData(CleanSorts(DropWindowTransform(spec))))

\* faulty variant: no copy is taken, the passes work on the caller's object
CleanVegaSpecInPlace(spec) ==
    [input |-> Normalize(spec), output |-> Normalize(spec)]

\* _clean_vega_spec(spec): the passes work on copy.deepcopy(spec); input is
\* the caller's object after the call, output the returned specification
CleanVegaSpec(spec) ==
    [input |-> spec, output |-> Normalize(spec)]

-----------------------------------------------------------------------------
(* Inputs: what the backend can send *)

\* the keys a cell wrapper can hold: the four typed tags, nullValue, and two
\* tags the decoder does not know
Tags == {"stringValue", "numberValue", "boolValue", "integerValue",
         "nullValue", "structValue", "listValue"}

\* the value a wrapper holds under each tag
TagValue(tag) ==
    CASE tag = "stringValue" -> "str:9"
      [] tag = "numberValue" -> "num:9"
      [] tag = "boolValue" -> "bool:true"
      [] tag = "integerValue" -> "int:9"
      [] tag = "nullValue" -> "NULL_VALUE"
      [] tag = "structValue" -> "struct"
      [] OTHER -> "list"

\* cell wrappers: up to MaxTags distinct tags, in any insertion order
Wrappers ==
    {[i \in 1..Len(ks) |-> <<ks[i], TagValue(ks[i])>>] :
        ks \in {s \in SeqsUpTo(Tags, MaxTags) : Injective(s)}}

Row(shape, fields, items, cells) ==
    [shape |-> shape, fields |-> fields, items |-> items, cells |-> cells]

\* {"fields": {col: wrapper, ...}}
WrappedRow(fields) == Row("wrapped", fields, <<>>, <<>>)

\* {col: value, ...}
PlainRow(items) == Row("plain", <<>>, items, <<>>)

\* [value, ...]
ListRow(cells) == Row("list", <<>>, <<>>, cells)

\* the rows of the table family: variant-wrapped mappings, plain mappings,
\* plain sequences, a row whose "fields" is not a mapping, and a scalar
Rows ==
    {WrappedRow(<<<<"a", <<<<"stringValue", "str:x">>>>>>,
                  <<"b", <<<<"numberValue", "num:1">>>>>>>>),
     WrappedRow(<<<<"a", <<<<"stringValue", "str:w">>>>>>>>),
     PlainRow(<<<<"a", "str:y">>, <<"b", "num:2">>>>),
     PlainRow(<<<<"b", "num:3">>>>),
     PlainRow(<<>>),
     ListRow(<<"str:z">>),
     ListRow(<<"str:z", "num:4">>),
     Row("badfields", <<>>, <<>>, <<>>),
     Row("scalar", <<>>, <<>>, <<>>)}

\* schema field lists: none, one or two named fields, a field without a name
Schemas ==
    {<<>>,
     <<<<<<"name", "a">>>>>>,
     <<<<<<"name", "a">>>>, <<<<"name", "b">>>>>>,
     <<<<<<"type", "STRING">>>>, <<<<"name", "b">>>>>>}

DataResult(fields, data, formatted_data, convertible) ==
    [schema |-> [fields |-> fields], data |-> data,
     formatted_data |-> formatted_data, convertible |-> convertible]

\* the data results of the table family: at most MaxRows rows in all, split
\* between the primary and the formatted field
TableResults ==
    UNION {{DataResult(f, SubSeq(rs, 1, k), SubSeq(rs, k + 1, Len(rs)), TRUE) :
               f \in Schemas, k \in 0..Len(rs)} :
           rs \in SeqsUpTo(Rows, MaxRows)}

\* the data results of the cell family: one column, one wrapped row
CellResults ==
    {DataResult(<<<<<<"name", "a">>>>>>, <<WrappedRow(<<<<"a", w>>>>)>>, <<>>, TRUE) :
        w \in Wrappers}

\* a decodable one-row result, a result that decodes to nothing, one that
\* MessageToDict cannot serialise, one whose row raises
SampleResults ==
    {DataResult(<<<<<<"name", "a">>>>>>, <<PlainRow(<<<<"a", "str:y">>>>)>>, <<>>, TRUE),
     DataResult(<<>>, <<>>, <<>>, TRUE),
     DataResult(<<<<<<"name", "a">>>>>>, <<PlainRow(<<<<"a", "str:y">>>>)>>, <<>>, FALSE),
     DataResult(<<<<<<"name", "a">>>>>>, <<Row("badfields", <<>>, <<>>, <<>>)>>, <<>>, TRUE)}

DataPart(generated_sql, result) ==
    [generated_sql |-> generated_sql, result |-> result]

\* sys_msg.data: unset, or a DataMessage with or without SQL and result
DataParts ==
    {None} \cup
    {Some(DataPart(q, r)) :
        q \in {<<>>, <<"SELECT 1">>},
        r \in {None} \cup {Some(d) : d \in SampleResults}}

\* vega_config maps: empty, without and with a schema marker
VegaConfigs ==
    {<<>>,
     <<<<"mark", "bar">>>>,
     <<<<"$schema", "v4.json">>, <<"mark", "area">>>>}

ChartResult(vega_config, convertible, image_data) ==
    [vega_config |-> vega_config, convertible |-> convertible,
     image |-> [data |-> image_data]]

\* sys_msg.chart: unset, set without a result, or with a ChartResult
ChartParts ==
    {None, Some([result |-> None])} \cup
    {Some([result |-> Some(ChartResult(v, c, i))]) :
        v \in VegaConfigs, c \in BOOLEAN, i \in {<<>>, <<"png">>}}

\* sys_msg.text in the product family: unset, no parts, blank, prose, prose
\* with a chart object, a chart object alone
TextParts ==
    {None} \cup
    {Some([parts |-> ps]) :
        ps \in {<<>>, <<<<SPACE>>>>, <<<<WORD>>>>,
                <<<<WORD>>, <<"{chart}">>>>, <<<<"{chart$}">>>>}}

AnalysisParts ==
    {None} \cup {Some([progress_event |-> e]) : e \in {<<>>, <<"planning">>}}

ErrorParts == {None} \cup {Some([text |-> t]) : t \in {<<>>, <<"boom">>}}

UserTexts == {<<>>, <<"hi">>}

SystemMessage(text, data, chart, analysis, error) ==
    [text |-> text, data |-> data, chart |-> chart,
     analysis |-> analysis, error |-> error]

Message(user_text, system_message) ==
    [user_message |-> [text |-> user_text], system_message |-> system_message]

\* a system message carrying only a data part
DataOnly(generated_sql, data_result) ==
    Message(<<>>, Some(SystemMessage(None, Some(DataPart(generated_sql, Some(data_result))),
                                     None, None, None)))

\* a system message carrying only a text part
TextOnly(parts) ==
    Message(<<>>, Some(SystemMessage(Some([parts |-> parts]), None, None, None, None)))

\* the product family: every combination of the parts
ProductMessages ==
    {Message(u, None) : u \in UserTexts} \cup
    {Message(u, Some(SystemMessage(t, d, c, a, e))) :
        u \in UserTexts, t \in TextParts, d \in DataParts, c \in ChartParts,
        a \in AnalysisParts, e \in ErrorParts}

\* the fragments of the text family: single tokens and a fenced chart block
Fragments ==
    {<<tok>> : tok \in Tokens} \cup {<<>>, <<FENCE, "{chart}", FENCE>>}

TextMessages == {TextOnly(ps) : ps \in SeqsUpTo(Fragments, MaxTextParts)}

\* the messages multi-message streams are made of
StreamMessages ==
    {Message(<<"hi">>, None),
     Message(<<>>, None),
     TextOnly(<<<<WORD>>>>),
     TextOnly(<<<<WORD>>, <<"{chart}">>>>),
     DataOnly(<<"SELECT 1">>, DataResult(<<<<<<"name", "a">>>>>>,
                                         <<PlainRow(<<<<"a", "str:y">>>>)>>, <<>>, TRUE)),
     DataOnly(<<"SELECT 2">>, DataResult(<<<<<<"name", "a">>>>>>,
                                         <<PlainRow(<<<<"a", "str:y">>>>)>>, <<>>, FALSE)),
     DataOnly(<<>>, DataResult(<<<<<<"name", "b">>>>>>,
                               <<PlainRow(<<<<"b", "num:3">>>>)>>, <<>>, TRUE)),
     Message(<<>>, Some(SystemMessage(None, None,
         Some([result |-> Some(ChartResult(<<<<"mark", "bar">>>>, FALSE, <<"png">>))]),
         None, Some([text |-> <<"boom">>])))),
     Message(<<>>, Some(SystemMessage(None, None,
         Some([result |-> Some(ChartResult(<<<<"mark", "bar">>>>, TRUE, <<>>))]),
         Some([progress_event |-> <<"planning">>]), None)))}

NoFailure == [kind |-> "none", after |-> 0, text |-> <<>>]

\* str(e) of the exceptions the backend raises
FailureTexts == {<<"403 permission denied">>}

\* the ways a stream s can fail: at the chat call, or at the fetch after
\* k elements
Failures(s) ==
    {NoFailure} \cup
    {[kind |-> "call", after |-> 0, text |-> t] : t \in FailureTexts} \cup
    {[kind |-> "stream", after |-> k, text |-> t] : k \in 0..Len(s), t \in FailureTexts}

-----------------------------------------------------------------------------
(* The state machine *)

\* multi-message streams, with every way to fail
InitStreams ==
    /\ stream \in SeqsUpTo(StreamMessages, MaxStream)
    /\ failure \in Failures(stream)

\* one message each: the product, text, table and cell families
InitSingle ==
    /\ \/ \E m \in ProductMessages : stream = <<m>>
       \/ \E m \in TextMessages : stream = <<m>>
       \/ \E d \in TableResults : stream = <<DataOnly(<<"SELECT 1">>, d)>>
       \/ \E d \in CellResults : stream = <<DataOnly(<<"SELECT 1">>, d)>>
    /\ failure = NoFailure

\* the defaults of init_session_state and of Settings
DefaultSettings ==
    [enable_chart_rendering |-> TRUE, show_sql |-> TRUE, show_reasoning |-> FALSE]

\* no page is open
PageOff ==
    /\ responses = <<>>
    /\ settings = DefaultSettings
    /\ session = <<>>
    /\ drawn = <<>>
    /\ rpc = "off"
    /\ turn = 0

\* the normalizer is not being called by itself
CallOff ==
    /\ caller_spec = <<>>
    /\ cleaned = <<>>

\* no browser session is open
SessOff ==
    /\ session_state = <<>>
    /\ conversation_mode = "stateful"
    /\ conversations = <<>>
    /\ request = <<>>

\* messages = [] before the try
Init ==
    /\ InitStreams \/ InitSingle
    /\ pc = "start"
    /\ pos = 0
    /\ messages = <<>>
    /\ PageOff
    /\ CallOff
    /\ SessOff

Spec == Init /\ [][Next]_vars

-----------------------------------------------------------------------------
(* The chat page: render_message, main and handle_user_input (src/app.py), *)
(* render_chart_from_spec and data_to_dataframe (src/src/visualization.py) *)

\* one call to the drawing library: which call, for the message at which
\* index of the history, and the specification handed over, if any
Draw(call, msg, spec) == [call |-> call, msg |-> msg, spec |-> spec]

\* data_section.get("values") or .get("name") or .get("url")
\* or "datasets" in spec
HasData(spec) ==
    LET data_section == Get(spec, "data", <<>>)
    IN  \/ Get(data_section, "values", <<>>) # <<>>
        \/ Get(data_section, "name", "") # ""
        \/ Get(data_section, "url", "") # ""
        \/ Has(spec, "datasets")

\* alt.Chart.from_dict(spec) on the result of the call to _clean_vega_spec
AltairChart(call) == [input |-> call.input, chart |-> Some(call.output)]

\* render_chart_from_spec(chart_spec): None without a specification or
\* without a data source, else the chart built from the cleaned
\* specification; input is the caller's object after the call
RenderChartFromSpec(chart_spec) ==
    IF chart_spec = <<>> \/ ~HasData(chart_spec)
    THEN [input |-> chart_spec, chart |-> None]
    ELSE AltairChart(CleanVegaSpec(chart_spec))

\* the width of the widest row
MaxWidth(rows) ==
    IF rows = <<>> THEN 0
    ELSE LET i == CHOOSE i \in 1..Len(rows) :
                      \A j \in 1..Len(rows) : Len(rows[j]) <= Len(rows[i])
         IN  Len(rows[i])

\* data_to_dataframe(data): None for a table without columns and rows, and
\* when pd.DataFrame raises because the rows are not as wide as the column
\* list; else the frame, of which the page reads the length and emptiness
DataToDataframe(data) ==
    IF data.columns = <<>> /\ data.rows = <<>> THEN None
    ELSE IF /\ data.columns # <<>>
            /\ data.rows # <<>>
            /\ MaxWidth(data.rows) # Len(data.columns)
         THEN None
    ELSE Some([nrows |-> Len(data.rows),
               ncols |-> IF data.columns # <<>> THEN Len(data.columns)
                         ELSE MaxWidth(data.rows)])

\* df is not None and not df.empty
FrameShown(df) == df # None /\ df[1].nrows > 0 /\ df[1].ncols > 0

\* a rendering step: the message as the step leaves it, and its draw calls
Shown(msg, draws) == [msg |-> msg, draws |-> draws]

\* if msg.content: st.markdown(msg.content)
ContentDraws(msg, i) ==
    IF msg.content # <<>> THEN <<Draw("markdown", i, None)>> ELSE <<>>

\* the Altair retry: chart = render_chart_from_spec(msg.chart_spec), drawn
\* when it is not None
ShowAltairChart(msg, i, retry) ==
    Shown([msg EXCEPT !.chart_spec = Some(retry.input)],
          IF retry.chart # None THEN <<Draw("altair_chart", i, retry.chart)>> ELSE <<>>)

\* faulty variant: the stored specification goes to st.vega_lite_chart
ShowVectorChartStored(msg, i, call) ==
    IF HasData(call.output)
    THEN Shown([msg EXCEPT !.chart_spec = Some(call.input)],
               <<Draw("vega_lite_chart", i, Some(call.input))>>)
    ELSE ShowAltairChart(msg, i, RenderChartFromSpec(call.input))

\* spec = _clean_vega_spec(msg.chart_spec), call being that call: the
\* cleaned specification goes to st.vega_lite_chart when it has data, else
\* Altair is tried on the stored one
ShowVectorChart(msg, i, call) ==
    IF HasData(call.output)
    THEN Shown([msg EXCEPT !.chart_spec = Some(call.input)],
               <<Draw("vega_lite_chart", i, Some(call.output))>>)
    ELSE ShowAltairChart(msg, i, RenderChartFromSpec(call.input))

\* a step followed by the content of the message
ThenContent(shown, msg, i) == Shown(shown.msg, shown.draws \o ContentDraws(msg, i))

\* the chart branch, the same code in render_message and handle_user_input:
\* the vector specification, else the image, then the content
RenderChartPart(msg, i) ==
    ThenContent(IF Populated(msg.chart_spec)
                THEN ShowVectorChart(msg, i, CleanVegaSpec(msg.chart_spec[1]))
                ELSE IF Populated(msg.chart_image)
                THEN Shown(msg, <<Draw("image", i, None)>>)
                ELSE Shown(msg, <<>>),
                msg, i)

\* the fallback chart of a data message: create_chart_from_data is called
\* unless the API gave a chart, charts are disabled or the frame has at most
\* one row
FallbackChart(df, i, has_api_chart) ==
    IF ~has_api_chart /\ settings.enable_chart_rendering /\ df[1].nrows > 1
    THEN <<Draw("fallback_chart", i, None)>>
    ELSE <<>>

\* the data branch of render_message: the frame, the fallback chart and the
\* download button when the frame is not empty, then the content
ShowFrame(msg, i, df, has_api_chart) ==
    Shown(msg, (IF FrameShown(df)
                THEN <<Draw("dataframe", i, None)>>
                     \o FallbackChart(df, i, has_api_chart)
                     \o <<Draw("download_button", i, None)>>
                ELSE <<>>)
               \o ContentDraws(msg, i))

\* the data branch of handle_user_input: the same without the button
ShowFrameInline(msg, i, df, has_api_chart) ==
    Shown(msg, (IF FrameShown(df)
                THEN <<Draw("dataframe", i, None)>> \o FallbackChart(df, i, has_api_chart)
                ELSE <<>>)
               \o ContentDraws(msg, i))

\* the SQL footer of render_message for messages that are no sql messages
ThenSqlFooter(shown, msg, i) ==
    Shown(shown.msg,
          shown.draws \o (IF /\ Populated(msg.sql_query)
                              /\ msg.message_type # "sql"
                              /\ settings.show_sql
                           THEN <<Draw("sql_query", i, None)>> ELSE <<>>))

\* render_message(msg, has_api_chart) for the message at index i
RenderMessage(msg, i, has_api_chart) ==
    IF msg.role = "user" THEN Shown(msg, <<Draw("markdown", i, None)>>)
    ELSE ThenSqlFooter(
        IF msg.message_type = "error" THEN Shown(msg, <<Draw("error", i, None)>>)
        ELSE IF msg.message_type = "reasoning" /\ settings.show_reasoning
        THEN Shown(msg, <<Draw("reasoning", i, None)>>)
        ELSE IF msg.message_type = "sql" /\ settings.show_sql
        THEN Shown(msg, <<Draw("sql", i, None)>>)
        ELSE IF msg.message_type = "chart" THEN RenderChartPart(msg, i)
        ELSE IF msg.message_type = "data" /\ msg.data # None
        THEN ShowFrame(msg, i, DataToDataframe(msg.data[1]), has_api_chart)
        ELSE IF msg.message_type = "text" /\ msg.content # <<>>
        THEN Shown(msg, <<Draw("markdown", i, None)>>)
        ELSE Shown(msg, <<>>),
        msg, i)

\* the body of the loop over response_messages in handle_user_input, for
\* the message appended at index i
RenderInline(msg, i, has_api_chart) ==
    IF msg.message_type = "error" THEN Shown(msg, <<Draw("error", i, None)>>)
    ELSE IF msg.message_type = "reasoning" /\ settings.show_reasoning
    THEN Shown(msg, <<Draw("reasoning", i, None)>>)
    ELSE IF msg.message_type = "sql" /\ settings.show_sql
    THEN Shown(msg, <<Draw("sql", i, None)>>)
    ELSE IF msg.message_type = "chart" THEN RenderChartPart(msg, i)
    ELSE IF msg.message_type = "data" /\ msg.data # None
    THEN ShowFrameInline(msg, i, DataToDataframe(msg.data[1]), has_api_chart)
    ELSE IF msg.message_type = "text" /\ msg.content # <<>>
    THEN Shown(msg, <<Draw("markdown", i, None)>>)
    ELSE Shown(msg, <<>>)

\* any(m.message_type == "chart" and m.chart_spec for m in list)
AnyApiChart(list) ==
    \E i \in 1..Len(list) :
        list[i].message_type = "chart" /\ Populated(list[i].chart_spec)

RECURSIVE RenderHistory(_, _, _, _)
\* the loop of main over st.session_state.messages, from index i on, after
\* the draw calls draws: the history as the calls leave it, and all the
\* draw calls
RenderHistory(list, i, has_api_chart, draws) ==
    IF i > Len(list) THEN [list |-> list, draws |-> draws]
    ELSE RenderHistory([list EXCEPT ![i] = RenderMessage(list[i], i, has_api_chart).msg],
                       i + 1, has_api_chart,
                       draws \o RenderMessage(list[i], i, has_api_chart).draws)

RECURSIVE RenderResponse(_, _, _, _, _)
\* the loop of handle_user_input over response_messages, from message k on:
\* each message is appended to the history, then drawn
RenderResponse(list, response_messages, k, has_api_chart, draws) ==
    IF k > Len(response_messages) THEN [list |-> list, draws |-> draws]
    ELSE RenderResponse(
             Append(list, RenderInline(response_messages[k], Len(list) + 1,
                                       has_api_chart).msg),
             response_messages, k + 1, has_api_chart,
             draws \o RenderInline(response_messages[k], Len(list) + 1,
                                   has_api_chart).draws)

\* ChatMessage(role="user", content=prompt)
UserMessage(prompt) == [ChatMessage(prompt, "text") EXCEPT !.role = "user"]

\* the prompt the user types
Prompt == <<"hi">>

\* the error message of a failed setup, and of an exception of the handler
SetupErrorMessage == ChatMessage(<<"Could not create an agent or conversation.">>, "error")

ApiErrorMessage == ChatMessage(<<"Error communicating with the API: ">>, "error")

\* main, up to the chat input: the welcome screen for an empty history,
\* then every stored message is drawn with the flag computed over the whole
\* history
Rerun ==
    /\ rpc = "rerun"
    /\ LET stored_has_api_chart == AnyApiChart(session)
           r == RenderHistory(session, 1, stored_has_api_chart,
                              IF session = <<>> THEN <<Draw("welcome", 0, None)>>
                              ELSE <<>>)
       IN  /\ session' = r.list
           /\ drawn' = r.draws
    /\ rpc' = "input"
    /\ UNCHANGED <<responses, settings, turn>>
    /\ UNCHANGED <<chatVars, callVars, sessVars>>

\* the script run ends without a prompt; the next interaction reruns it
NoPrompt ==
    /\ rpc = "input"
    /\ rpc' = "rerun"
    /\ UNCHANGED <<responses, settings, session, drawn, turn>>
    /\ UNCHANGED <<chatVars, callVars, sessVars>>

\* handle_user_input without a project id: an error banner, nothing stored
HandleUserInputNoProject ==
    /\ rpc = "input"
    /\ turn < Len(responses)
    /\ responses[turn + 1].outcome = "no_project"
    /\ drawn' = Append(drawn, Draw("error", 0, None))
    /\ turn' = turn + 1
    /\ rpc' = "rerun"
    /\ UNCHANGED <<responses, settings, session>>
    /\ UNCHANGED <<chatVars, callVars, sessVars>>

\* handle_user_input when no agent or conversation can be had: the prompt
\* and the error message are stored and drawn
HandleUserInputSetupFails ==
    /\ rpc = "input"
    /\ turn < Len(responses)
    /\ responses[turn + 1].outcome = "no_agent"
    /\ session' = session \o <<UserMessage(Prompt), SetupErrorMessage>>
    /\ drawn' = drawn \o <<Draw("markdown", Len(session) + 1, None)>>
                      \o RenderMessage(SetupErrorMessage, Len(session) + 2, FALSE).draws
    /\ turn' = turn + 1
    /\ rpc' = "rerun"
    /\ UNCHANGED <<responses, settings>>
    /\ UNCHANGED <<chatVars, callVars, sessVars>>

\* handle_user_input when the handler raises: the prompt and the error
\* message of the except branch are stored and drawn
HandleUserInputRaises ==
    /\ rpc = "input"
    /\ turn < Len(responses)
    /\ responses[turn + 1].outcome = "raises"
    /\ session' = session \o <<UserMessage(Prompt), ApiErrorMessage>>
    /\ drawn' = drawn \o <<Draw("markdown", Len(session) + 1, None),
                           Draw("error", Len(session) + 2, None)>>
    /\ turn' = turn + 1
    /\ rpc' = "rerun"
    /\ UNCHANGED <<responses, settings>>
    /\ UNCHANGED <<chatVars, callVars, sessVars>>

\* handle_user_input with a response: the prompt is stored and drawn, then
\* each response message is stored and drawn with the flag computed over
\* the response alone
HandleUserInput ==
    /\ rpc = "input"
    /\ turn < Len(responses)
    /\ responses[turn + 1].outcome = "ok"
    /\ LET response_messages == responses[turn + 1].messages
           has_api_chart == AnyApiChart(response_messages)
           r == RenderResponse(Append(session, UserMessage(Prompt)),
                               response_messages, 1, has_api_chart,
                               Append(drawn, Draw("markdown", Len(session) + 1, None)))
       IN  /\ session' = r.list
           /\ drawn' = r.draws
    /\ turn' = turn + 1
    /\ rpc' = "rerun"
    /\ UNCHANGED <<responses, settings>>
    /\ UNCHANGED <<chatVars, callVars, sessVars>>

PageNext ==
    \/ Rerun
    \/ NoPrompt
    \/ HandleUserInputNoProject
    \/ HandleUserInputSetupFails
    \/ HandleUserInputRaises
    \/ HandleUserInput

-----------------------------------------------------------------------------
(* Inputs of the chat page: the chart specifications the backend can send  *)
(* and the responses a turn can get                                        *)

\* longest list of data rows of a chart specification drawn in full
MaxChartRows == 2
\* prompts of one session
MaxTurns == 2

Step(shape, keys) == [shape |-> shape, keys |-> keys]

Axis(shape, items) == [shape |-> shape, items |-> items]

ChartRow(shape, items) == [shape |-> shape, items |-> items]

\* an int or float cell, in units of 10^7
Num(n) == [num |-> TRUE, v |-> n]

\* a cell that is no number
Str == [num |-> FALSE, v |-> 0]

\* transform lists: empty, harmless, a window step first, a sort step last,
\* and a step that is no mapping
TransformLists ==
    {<<>>,
     <<Step("dict", <<"filter">>)>>,
     <<Step("dict", <<"window", "frame">>), Step("dict", <<"filter">>)>>,
     <<Step("dict", <<"filter">>), Step("dict", <<"sort">>)>>,
     <<Step("scalar", <<"window">>), Step("dict", <<"calculate", "as">>)>>}

\* encodings: temporal and other channels, with every kind of sort value, a
\* channel that is no mapping and a channel the normalizer does not clean
Encodings ==
    {<<<<"x", Axis("dict", <<<<"field", "t">>, <<"type", "temporal">>>>)>>>>,
     <<<<"x", Axis("dict", <<<<"field", "t">>, <<"type", "temporal">>,
                             <<"sort", EMPTY_MAPPING>>>>)>>,
       <<"y", Axis("dict", <<<<"field", "v">>, <<"type", "quantitative">>,
                             <<"sort", "ascending">>>>)>>>>,
     <<<<"x", Axis("dict", <<<<"field", "t">>, <<"type", "temporal">>,
                             <<"sort", JSON_NULL>>>>)>>,
       <<"color", Axis("dict", <<<<"field", "t">>, <<"type", "temporal">>,
                                 <<"sort", "[]">>>>)>>>>,
     <<<<"theta", Axis("dict", <<<<"field", "v">>, <<"type", "quantitative">>,
                                 <<"sort", EMPTY_MAPPING>>>>)>>,
       <<"color", Axis("dict", <<<<"field", "t">>, <<"type", "nominal">>,
                                 <<"sort", "{field: v}">>>>)>>>>,
     <<<<"x", Axis("scalar", <<>>)>>,
       <<"y", Axis("dict", <<<<"field", "v">>, <<"type", "temporal">>>>)>>>>,
     <<<<"size", Axis("dict", <<<<"field", "v">>, <<"sort", EMPTY_MAPPING>>>>)>>,
       <<"x", Axis("dict", <<<<"field", "t">>, <<"type", "temporal">>>>)>>>>}

\* data rows: values inside the seconds range, on its two bounds, beyond
\* it, cells that are no numbers, a missing field and a row that is no
\* mapping
ChartRows ==
    {ChartRow("dict", <<<<"t", Num(150)>>, <<"v", Num(20)>>>>),
     ChartRow("dict", <<<<"t", Num(10)>>, <<"v", Num(299)>>>>),
     ChartRow("dict", <<<<"t", Num(300)>>, <<"v", Str>>>>),
     ChartRow("dict", <<<<"t", Str>>>>),
     ChartRow("dict", <<<<"t", Num(400)>>>>),
     ChartRow("scalar", <<>>)}

\* more rows than the sample: five inside the range, then one on its bound
LongValues ==
    [i \in 1..(SampleSize + 1) |->
        IF i <= SampleSize
        THEN ChartRow("dict", <<<<"t", Num(150)>>, <<"v", Num(20)>>>>)
        ELSE ChartRow("dict", <<<<"t", Num(10)>>, <<"v", Num(299)>>>>)]

\* the data sections: a named dataset, or literal rows
DataSections ==
    {<<<<"name", "table">>>>} \cup
    {<<<<"values", vs>>>> : vs \in SeqsUpTo(ChartRows, MaxChartRows) \cup {LongValues}}

\* the $schema markers a backend declares
DeclaredSchemas == {"v4.json", SchemaV5}

\* a vega_config: the keys that are given, in the backend's order
BackendSpec(schema, transform, encoding, data) ==
    (IF schema # None THEN <<<<"$schema", schema[1]>>>> ELSE <<>>)
    \o <<<<"mark", "line">>>>
    \o (IF transform # None THEN <<<<"transform", transform[1]>>>> ELSE <<>>)
    \o (IF encoding # None THEN <<<<"encoding", encoding[1]>>>> ELSE <<>>)
    \o (IF data # None THEN <<<<"data", data[1]>>>> ELSE <<>>)

BackendSpecs ==
    {BackendSpec(s, t, e, d) :
        s \in {None} \cup {Some(x) : x \in DeclaredSchemas},
        t \in {None} \cup {Some(x) : x \in TransformLists},
        e \in {None} \cup {Some(x) : x \in Encodings},
        d \in {None} \cup {Some(x) : x \in DataSections}}

\* a system message carrying only a chart part with a vector specification
ChartOnly(vega_config) ==
    Message(<<>>, Some(SystemMessage(None, None,
        Some([result |-> Some(ChartResult(vega_config, TRUE, <<>>))]), None, None)))

\* a table of two rows and a table of one
TwoRowResult ==
    DataResult(<<<<<<"name", "a">>>>, <<<<"name", "b">>>>>>,
               <<PlainRow(<<<<"a", "str:y">>, <<"b", "num:2">>>>),
                 PlainRow(<<<<"a", "str:x">>, <<"b", "num:3">>>>)>>, <<>>, TRUE)

OneRowResult ==
    DataResult(<<<<<<"name", "a">>>>>>, <<PlainRow(<<<<"a", "str:y">>>>)>>, <<>>, TRUE)

\* a specification with a named dataset
NamedSpec == BackendSpec(None, None, None, Some(<<<<"name", "table">>>>))

\* the protocol messages a turn of the session family answers with: a table,
\* a table with a chart specification, a chart specification alone, a table
\* with a chart image, a table of one row, prose with reasoning, and a table
\* beside prose that embeds a chart specification
TurnMessages ==
    {DataOnly(<<"SELECT 1">>, TwoRowResult),
     Message(<<>>, Some(SystemMessage(None,
         Some(DataPart(<<>>, Some(TwoRowResult))),
         Some([result |-> Some(ChartResult(NamedSpec, TRUE, <<>>))]), None, None))),
     ChartOnly(NamedSpec),
     Message(<<>>, Some(SystemMessage(None,
         Some(DataPart(<<"SELECT 1">>, Some(TwoRowResult))),
         Some([result |-> Some(ChartResult(<<>>, TRUE, <<"png">>))]), None, None))),
     DataOnly(<<>>, OneRowResult),
     Message(<<>>, Some(SystemMessage(Some([parts |-> <<<<WORD>>>>]), None, None,
         Some([progress_event |-> <<"planning">>]), None))),
     Message(<<>>, Some(SystemMessage(Some([parts |-> <<<<WORD>>, <<"{chart$}">>>>]),
         Some(DataPart(<<>>, Some(TwoRowResult))), None, None, None)))}

\* what handle_user_input gets for a prompt
Answer(outcome, response_messages) ==
    [outcome |-> outcome, messages |-> response_messages]

\* the answers of the session family: the display messages of a protocol
\* message, and the three ways to fail before there is a response
TurnAnswers ==
    {Answer("ok", ParseMessage(m)) : m \in TurnMessages} \cup
    {Answer(o, <<>>) : o \in {"no_project", "no_agent", "raises"}}

\* the answers of the normalizer family: one chart message per specification
ChartAnswers == {Answer("ok", ParseMessage(ChartOnly(v))) : v \in BackendSpecs}

AllSettings ==
    [enable_chart_rendering : BOOLEAN, show_sql : BOOLEAN, show_reasoning : BOOLEAN]

\* no chat call is running
ChatOff ==
    /\ stream = <<>>
    /\ failure = NoFailure
    /\ pc = "off"
    /\ pos = 0
    /\ messages = <<>>

\* sessions of up to MaxTurns prompts under every setting
PageInitSessions ==
    /\ responses \in SeqsUpTo(TurnAnswers, MaxTurns)
    /\ settings \in AllSettings

\* one prompt answered by one chart specification
PageInitCharts ==
    /\ \E r \in ChartAnswers : responses = <<r>>
    /\ settings = DefaultSettings

\* a fresh session: st.session_state.messages = []
PageInit ==
    /\ PageInitSessions \/ PageInitCharts
    /\ session = <<>>
    /\ drawn = <<>>
    /\ rpc = "rerun"
    /\ turn = 0
    /\ ChatOff
    /\ CallOff
    /\ SessOff

PageSpec == PageInit /\ [][PageNext]_vars

-----------------------------------------------------------------------------
(* _clean_vega_spec called by itself, on any specification and then on its *)
(* own results                                                             *)

\* calls of the normalizer in a row
MaxPasses == 2

\* cleaned_spec = _clean_vega_spec(caller_spec)
CleanVegaSpecCall ==
    /\ cleaned = <<>>
    /\ caller_spec' = CleanVegaSpec(caller_spec).input
    /\ cleaned' = <<CleanVegaSpec(caller_spec).output>>
    /\ UNCHANGED <<chatVars, pageVars, sessVars>>

\* _clean_vega_spec(cleaned_spec): the last result goes through again
CleanVegaSpecAgain ==
    /\ cleaned # <<>>
    /\ Len(cleaned) < MaxPasses
    /\ cleaned' = Append([cleaned EXCEPT ![Len(cleaned)] =
                              CleanVegaSpec(cleaned[Len(cleaned)]).input],
                         CleanVegaSpec(cleaned[Len(cleaned)]).output)
    /\ UNCHANGED caller_spec
    /\ UNCHANGED <<chatVars, pageVars, sessVars>>

CleanNext ==
    \/ CleanVegaSpecCall
    \/ CleanVegaSpecAgain

\* any specification of the backend, with or without a $schema marker
CleanInit ==
    /\ caller_spec \in BackendSpecs
    /\ cleaned = <<>>
    /\ ChatOff
    /\ PageOff
    /\ SessOff

CleanSpec == CleanInit /\ [][CleanNext]_vars

-----------------------------------------------------------------------------
(* Browser sessions served by one Streamlit process: the sidebar of app.py, *)
(* the agent and conversation operations, and the ChatRequest that          *)
(* handle_user_input has the chat handler send. Each action is one run of   *)
(* the script for one session, started by one interaction of its user. One  *)
(* session is followed through all it can do; of the sessions beside it,    *)
(* the runs that write what the process shares, the settings singleton.     *)

\* browser sessions open at the same time, and the one that is followed
Sessions == {"first", "second"}
Followed == "first"

\* stored messages up to which a prompt is accepted
MaxHistory == 2

\* conversations the backend creates
MaxConversations == 1

\* chat requests the sessions send
MaxRequests == 2

\* Settings.default_agent_id
DefaultAgentId == "datachat_agent"

\* what a user may type into the Agent ID field
AgentIds == {"", DefaultAgentId, "sales_agent"}

\* what a user may type into st.chat_input
Prompts == {<<"hi">>, <<"more">>}

\* Settings.conversation_mode
Modes == {"stateful", "stateless"}

\* agent_id = agent_id or settings.default_agent_id
OrDefault(agent_id) == IF agent_id = "" THEN DefaultAgentId ELSE agent_id

\* the defaults of init_session_state, and the mode the radio shows
Defaults(project_id) ==
    [messages |-> <<>>, conversation_name |-> None,
     agent_id |-> DefaultAgentId, agent_created |-> FALSE,
     project_id |-> project_id, mode |-> conversation_mode]

\* outcomes of mgr.create_agent, mgr.delete_agent, handler.create_conversation
\* and of the chat call
CreateOutcomes == {"created", "ALREADY_EXISTS", "PERMISSION_DENIED"}
DeleteOutcomes == {"True", "False", "raises"}
ChatOutcomes == {"answered", "raises"}
ConversationOutcomes ==
    IF Len(conversations) < MaxConversations THEN {"created", "raises"}
    ELSE {"raises"}

\* the name the backend gives the next conversation (a fresh uuid)
NextConversation == Len(conversations) + 1

\* client.create_conversation: the conversation is for agent_id or the default
CreateConversation(agent_id) == Append(conversations, OrDefault(agent_id))

\* the response of one answered prompt, and the error of the stateless setup
ResponseMessages == <<ChatMessage(<<"answer">>, "text")>>
AgentErrorMessage ==
    ChatMessage(<<"Could not create or find the data agent.">>, "error")

\* create_agent()
CreateAgent(ss, outcome) ==
    IF ss.project_id = ""
    THEN ss
    ELSE IF outcome = "created"
    THEN [ss EXCEPT !.agent_created = TRUE]
    ELSE IF outcome = "ALREADY_EXISTS"
    THEN [ss EXCEPT !.agent_created = TRUE]
    ELSE ss

\* faulty variant: the handle survives the deletion of the agent
DeleteAgentKeepsHandle(ss, outcome) ==
    IF outcome = "True"
    THEN [ss EXCEPT !.agent_created = FALSE, !.messages = <<>>]
    ELSE IF outcome = "False"
    THEN ss
    ELSE ss

\* delete_agent()
DeleteAgent(ss, outcome) ==
    IF outcome = "True"
    THEN [ss EXCEPT !.agent_created = FALSE, !.conversation_name = None,
                    !.messages = <<>>]
    ELSE IF outcome = "False"
    THEN ss
    ELSE ss

\* start_new_conversation()
StartNewConversation(ss, outcome, conv_name) ==
    IF ~ss.agent_created
    THEN ss
    ELSE IF outcome = "created"
    THEN [ss EXCEPT !.conversation_name = Some(conv_name), !.messages = <<>>]
    ELSE ss

\* ensure_conversation() from the try on, the agent being there or not
EnsureWithAgent(ss, outcome, conv_name) ==
    IF ~ss.agent_created THEN [state |-> ss, ok |-> FALSE]
    ELSE IF outcome = "created"
    THEN [state |-> [ss EXCEPT !.conversation_name = Some(conv_name)],
          ok |-> TRUE]
    ELSE [state |-> ss,
          ok |-> FALSE]

\* ensure_conversation(): the session state it leaves and what it returns
EnsureConversation(ss, agent_outcome, outcome, conv_name) ==
    IF ss.conversation_name # None THEN [state |-> ss, ok |-> TRUE]
    ELSE EnsureWithAgent(IF ss.agent_created THEN ss
                         ELSE CreateAgent(ss, agent_outcome),
                         outcome, conv_name)

\* the stateless branch of handle_user_input: just the agent is needed
EnsureAgent(ss, agent_outcome) ==
    IF ss.agent_created THEN ss ELSE CreateAgent(ss, agent_outcome)

\* the backend learns of the conversation a run created
ConversationsAfter(before, after) ==
    IF after.conversation_name # before.conversation_name
       /\ after.conversation_name # None
    THEN CreateConversation(after.agent_id)
    ELSE conversations

\* the texts of the user-role entries of history, in order
UserContents(history) ==
    LET users == SelectSeq(history, LAMBDA m : m.role = "user")
    IN  [i \in 1..Len(users) |-> users[i].content]

\* ChatHandler.chat_stateful: the ChatRequest it builds
ChatStateful(conversation_name, user_message, agent_id) ==
    [mode |-> "stateful",
     conversation |-> conversation_name,
     data_agent |-> IF agent_id = None THEN DefaultAgentId
                    ELSE OrDefault(agent_id[1]),
     messages |-> <<user_message>>]

\* ChatHandler.chat_stateless: the ChatRequest it builds
ChatStateless(agent_id, user_message, history) ==
    [mode |-> "stateless",
     conversation |-> None,
     data_agent |-> agent_id,
     messages |-> Append(UserContents(history), user_message)]

\* history = [m for m in st.session_state.messages if m.role in (...)]
History(msgs) == SelectSeq(msgs, LAMBDA m : m.role \in {"user", "assistant"})

\* faulty variant: the whole history, the current prompt included
WholeHistory(history) == history

\* history[:-1]
AllButLast(history) == SubSeq(history, 1, Len(history) - 1)

\* the request of this run, as the backend receives it: numbered, and from s
Sent(s, chat_request) ==
    [n |-> request.n + 1, session |-> s, chat |-> chat_request]

\* no request was sent yet
NoRequest ==
    [n |-> 0, session |-> "",
     chat |-> [mode |-> "", conversation |-> None, data_agent |-> "",
               messages |-> <<>>]]

\* the chat call and what handle_user_input stores of it
AfterChat(ss, outcome) ==
    [ss EXCEPT !.messages =
        IF outcome = "answered" THEN @ \o ResponseMessages
        ELSE Append(@, ApiErrorMessage)]

\* mode = st.radio(..., index=...): the radio has no key, so the index takes
\* part in its identity; when settings.conversation_mode is not the mode the
\* page of this session shows, the radio is a new widget and returns the
\* option at index, else it returns what the user picked
StRadio(ss, picked) ==
    IF ss.mode = conversation_mode THEN picked ELSE conversation_mode

\* the stored messages of the session that chats
Stored == Len(session_state[Followed].messages)

\* the Agent ID field is edited
EditAgentId(s) ==
    /\ \E agent_id \in AgentIds \ {session_state[s].agent_id} :
           session_state' = [session_state EXCEPT ![s] =
               [@ EXCEPT !.agent_id = agent_id,
                         !.mode = conversation_mode]]
    /\ UNCHANGED <<conversation_mode, conversations, request>>
    /\ UNCHANGED <<chatVars, pageVars, callVars>>

\* the Create Agent button
ClickCreateAgent(s) ==
    /\ \E outcome \in CreateOutcomes :
           session_state' = [session_state EXCEPT ![s] =
               [CreateAgent(@, outcome) EXCEPT !.mode = conversation_mode]]
    /\ UNCHANGED <<conversation_mode, conversations, request>>
    /\ UNCHANGED <<chatVars, pageVars, callVars>>

\* the Delete Agent button
ClickDeleteAgent(s) ==
    /\ \E outcome \in DeleteOutcomes :
           session_state' = [session_state EXCEPT ![s] =
               [DeleteAgent(@, outcome) EXCEPT !.mode = conversation_mode]]
    /\ UNCHANGED <<conversation_mode, conversations, request>>
    /\ UNCHANGED <<chatVars, pageVars, callVars>>

\* the radio: the user picks the mode the page does not show
SelectMode(s) ==
    /\ \E picked \in Modes \ {session_state[s].mode} :
         LET mode == StRadio(session_state[s], picked)
         IN  /\ conversation_mode' = mode
             /\ session_state' = [session_state EXCEPT ![s] =
                    [@ EXCEPT !.mode = mode,
                              !.messages = IF mode # conversation_mode
                                           THEN <<>> ELSE @]]
    /\ UNCHANGED <<conversations, request>>
    /\ UNCHANGED <<chatVars, pageVars, callVars>>

\* the New Conversation button, which the page shows in stateful mode and
\* the run has only when settings.conversation_mode is stateful
ClickNewConversation(s) ==
    /\ session_state[s].mode = "stateful"
    /\ \E outcome \in ConversationOutcomes :
         LET after == IF conversation_mode = "stateful"
                      THEN StartNewConversation(session_state[s], outcome,
                                                NextConversation)
                      ELSE session_state[s]
         IN  /\ session_state' = [session_state EXCEPT ![s] =
                    [after EXCEPT !.mode = conversation_mode]]
             /\ conversations' = ConversationsAfter(session_state[s], after)
    /\ UNCHANGED <<conversation_mode, request>>
    /\ UNCHANGED <<chatVars, pageVars, callVars>>

\* the Clear Chat button, which the page shows in stateless mode and the
\* run has only when settings.conversation_mode is stateless
ClickClearChat(s) ==
    /\ session_state[s].mode = "stateless"
    /\ session_state' = [session_state EXCEPT ![s] =
           [@ EXCEPT !.mode = conversation_mode,
                     !.messages = IF conversation_mode = "stateless"
                                  THEN <<>> ELSE @]]
    /\ UNCHANGED <<conversation_mode, conversations, request>>
    /\ UNCHANGED <<chatVars, pageVars, callVars>>

\* handle_user_input without a project id
ChatInputNoProject(s) ==
    /\ session_state[s].project_id = ""
    /\ session_state' = [session_state EXCEPT ![s] =
           [@ EXCEPT !.mode = conversation_mode]]
    /\ UNCHANGED <<conversation_mode, conversations, request>>
    /\ UNCHANGED <<chatVars, pageVars, callVars>>

\* handle_user_input when settings.conversation_mode is stateful
ChatInputStateful(s) ==
    /\ session_state[s].project_id # ""
    /\ conversation_mode = "stateful"
    /\ Stored <= MaxHistory
    /\ request.n < MaxRequests
    /\ \E prompt \in Prompts, agent_outcome \in CreateOutcomes,
          outcome \in ConversationOutcomes, answer \in ChatOutcomes :
         LET ensured == EnsureConversation(
                 [session_state[s] EXCEPT
                      !.messages = Append(@, UserMessage(prompt))],
                 agent_outcome, outcome, NextConversation)
         IN  /\ conversations' =
                    ConversationsAfter(session_state[s], ensured.state)
             /\ IF ensured.ok
                THEN /\ request' = Sent(s, ChatStateful(
                            ensured.state.conversation_name, prompt, None))
                     /\ session_state' = [session_state EXCEPT ![s] =
                            [AfterChat(ensured.state, answer)
                                 EXCEPT !.mode = conversation_mode]]
                ELSE /\ request' = request
                     /\ session_state' = [session_state EXCEPT ![s] =
                            [ensured.state EXCEPT
                                 !.messages = Append(@, SetupErrorMessage),
                                 !.mode = conversation_mode]]
    /\ UNCHANGED conversation_mode
    /\ UNCHANGED <<chatVars, pageVars, callVars>>

\* handle_user_input when settings.conversation_mode is stateless
ChatInputStateless(s) ==
    /\ session_state[s].project_id # ""
    /\ conversation_mode = "stateless"
    /\ Stored <= MaxHistory
    /\ request.n < MaxRequests
    /\ \E prompt \in Prompts, agent_outcome \in CreateOutcomes,
          answer \in ChatOutcomes :
         LET ensured == EnsureAgent(
                 [session_state[s] EXCEPT
                      !.messages = Append(@, UserMessage(prompt))],
                 agent_outcome)
         IN  IF ensured.agent_created
             THEN /\ request' = Sent(s, ChatStateless(
                         ensured.agent_id, prompt,
                         AllButLast(History(ensured.messages))))
                  /\ session_state' = [session_state EXCEPT ![s] =
                         [AfterChat(ensured, answer)
                              EXCEPT !.mode = conversation_mode]]
             ELSE /\ request' = request
                  /\ session_state' = [session_state EXCEPT ![s] =
                         [ensured EXCEPT
                              !.messages = Append(@, AgentErrorMessage),
                              !.mode = conversation_mode]]
    /\ UNCHANGED <<conversation_mode, conversations>>
    /\ UNCHANGED <<chatVars, pageVars, callVars>>

SessionNext ==
    \/ \E s \in Sessions : SelectMode(s)
    \/ EditAgentId(Followed)
    \/ ClickCreateAgent(Followed)
    \/ ClickDeleteAgent(Followed)
    \/ ClickNewConversation(Followed)
    \/ ClickClearChat(Followed)
    \/ ChatInputNoProject(Followed)
    \/ ChatInputStateful(Followed)
    \/ ChatInputStateless(Followed)

\* two sessions just opened: init_session_state ran in each
SessionInit ==
    /\ conversation_mode \in Modes
    /\ \E project_id \in {"", "my-project"} :
           session_state = [s \in Sessions |-> Defaults(project_id)]
    /\ conversations = <<>>
    /\ request = NoRequest
    /\ ChatOff
    /\ PageOff
    /\ CallOff

SessionSpec == SessionInit /\ [][SessionNext]_vars

-----------------------------------------------------------------------------
(* Properties *)

RECURSIVE Flatten(_)
\* the concatenation of a sequence of lists
Flatten(lists) ==
    IF lists = <<>> THEN <<>> ELSE Head(lists) \o Flatten(Tail(lists))

\* the per-message outputs of the first k stream elements, concatenated
OutputsOfFirst(k) == Flatten([i \in 1..k |-> ParseMessage(stream[i])])

\* what the step that consumed a stream element appended
Appended == SubSeq(messages', Len(messages) + 1, Len(messages'))

\* exactly one message has been consumed and its output is in messages
OneConsumed == pos = 1 /\ pc = "iterating"

\* spec is base, possibly with the default schema marker added
SameSpec(spec, base) == spec = base \/ spec = Append(base, <<"$schema", SchemaV5>>)

\* the JSON objects embedded in the text part of msg
EmbeddedSpecs(msg) ==
    IF msg.system_message = None \/ msg.system_message[1].text = None THEN {}
    ELSE LET text == Join(msg.system_message[1].text[1].parts)
         IN  {ParsedJson(text[k]) : k \in {l \in 1..Len(text) :
                                              text[l] \in JsonTokens \ {"{bad}"}}}

\* the vector config of the chart part of msg
PartSpecs(msg) ==
    IF \/ msg.system_message = None
       \/ msg.system_message[1].chart = None
       \/ msg.system_message[1].chart[1].result = None
    THEN {}
    ELSE {msg.system_message[1].chart[1].result[1].vega_config}

\* display message m is of the kind that takes place slot in the order
\* chart from text, text, sql, data, chart spec of the chart part, chart
\* image, reasoning, error
FitsSlot(m, slot, msg) ==
    CASE slot = 1 -> /\ m.message_type = "chart"
                     /\ m.chart_spec # None
                     /\ \E b \in EmbeddedSpecs(msg) : SameSpec(m.chart_spec[1], b)
      [] slot = 2 -> m.message_type = "text"
      [] slot = 3 -> m.message_type = "sql"
      [] slot = 4 -> m.message_type = "data"
      [] slot = 5 -> /\ m.message_type = "chart"
                     /\ m.chart_spec # None
                     /\ \E b \in PartSpecs(msg) : SameSpec(m.chart_spec[1], b)
      [] slot = 6 -> m.message_type = "chart" /\ m.chart_image # None
      [] slot = 7 -> m.message_type = "reasoning"
      [] OTHER -> m.message_type = "error"

RECURSIVE InSlotOrder(_, _, _, _)
\* out[i..] fits strictly increasing slots, none before slot
InSlotOrder(out, i, slot, msg) ==
    IF i > Len(out) THEN TRUE
    ELSE IF slot > 8 THEN FALSE
    ELSE IF FitsSlot(out[i], slot, msg) THEN InSlotOrder(out, i + 1, slot + 1, msg)
    ELSE InSlotOrder(out, i, slot + 1, msg)

\* C1: the display messages of one inbound message come in the order chart
\* extracted from text, text, sql, data, chart spec of the chart part, chart
\* image, reasoning, error: no message of a later kind precedes one of an
\* earlier kind.
C1_OrderWithinMessage == OneConsumed => InSlotOrder(messages, 1, 1, stream[1])

\* C1 witness: a message that produced all eight kinds has been parsed
C1_Witness ==
    /\ OneConsumed
    /\ Len(messages) = 8
    /\ \A slot \in 1..8 : FitsSlot(messages[slot], slot, stream[1])

\* C2: when the stream ends without failure, the returned list is the
\* concatenation, in stream order, of the per-message outputs of
\* _parse_message; an empty stream gives the empty list.
C2_Concatenation ==
    (pc = "done" /\ failure.kind = "none") =>
        /\ pos = Len(stream)
        /\ messages = OutputsOfFirst(Len(stream))
        /\ (stream = <<>> => messages = <<>>)

\* C2 witness: a two-message stream whose messages gave different, non-empty
\* outputs has been returned
C2_Witness ==
    /\ pc = "done"
    /\ failure.kind = "none"
    /\ Len(stream) = 2
    /\ ParseMessage(stream[1]) # <<>>
    /\ ParseMessage(stream[2]) # <<>>
    /\ ParseMessage(stream[1]) # ParseMessage(stream[2])
    /\ Len(messages) >= 3

\* the string s ends with suffix
EndsWith(s, suffix) ==
    /\ Len(suffix) <= Len(s)
    /\ SubSeq(s, Len(s) - Len(suffix) + 1, Len(s)) = suffix

\* C3: when the chat call or the stream fails after k consumed messages,
\* the function returns the display messages of those k messages followed by
\* one error-kind message carrying the stringified failure, as the last
\* element, and consumes no further stream element.
C3_StreamFailure ==
    (pc = "done" /\ failure.kind # "none") =>
        /\ pos = failure.after
        /\ Len(messages) = Len(OutputsOfFirst(failure.after)) + 1
        /\ SubSeq(messages, 1, Len(messages) - 1) = OutputsOfFirst(failure.after)
        /\ messages[Len(messages)].message_type = "error"
        /\ messages[Len(messages)].role = "assistant"
        /\ EndsWith(messages[Len(messages)].content, failure.text)

\* C3 witness: a stream of two messages failed after the first one, whose
\* display messages are returned in front of the error
C3_Witness ==
    /\ pc = "done"
    /\ failure.kind = "stream"
    /\ failure.after = 1
    /\ Len(stream) = 2
    /\ ParseMessage(stream[2]) # <<>>
    /\ Len(messages) >= 2

\* data result d is one the decoder cannot decode: MessageToDict raises on
\* it, or it has columns and a primary row whose "fields" is not a mapping
Undecodable(d) ==
    \/ ~d.convertible
    \/ /\ d.schema.fields # <<>>
       /\ \E i \in 1..Len(d.data) : d.data[i].shape = "badfields"

\* system message sm holds a malformed sub-payload
HasMalformed(sm) ==
    \/ /\ sm.chart # None
       /\ sm.chart[1].result # None
       /\ sm.chart[1].result[1].vega_config # <<>>
       /\ ~sm.chart[1].result[1].convertible
    \/ /\ sm.data # None
       /\ sm.data[1].result # None
       /\ Undecodable(sm.data[1].result[1])

\* sm with its malformed sub-payloads taken out: the vector config emptied,
\* the data result unset; every other part as it is
WithoutMalformed(sm) ==
    [sm EXCEPT
        !.chart = IF /\ sm.chart # None
                     /\ sm.chart[1].result # None
                     /\ sm.chart[1].result[1].vega_config # <<>>
                     /\ ~sm.chart[1].result[1].convertible
                  THEN Some([result |-> Some(ChartResult(<<>>, TRUE,
                                 sm.chart[1].result[1].image.data))])
                  ELSE sm.chart,
        !.data = IF /\ sm.data # None
                    /\ sm.data[1].result # None
                    /\ Undecodable(sm.data[1].result[1])
                 THEN Some(DataPart(sm.data[1].generated_sql, None))
                 ELSE sm.data]

\* msg is a system message with a malformed sub-payload, not a user echo
MalformedMessage(msg) ==
    /\ msg.user_message.text = <<>>
    /\ msg.system_message # None
    /\ HasMalformed(msg.system_message[1])

\* the output msg would give had its malformed sub-payloads not been sent
OutputWithoutMalformed(msg) ==
    IF MalformedMessage(msg)
    THEN ParseMessage(Message(<<>>, Some(WithoutMalformed(msg.system_message[1]))))
    ELSE ParseMessage(msg)

\* C4: a malformed sub-payload (a vector chart config that cannot be
\* converted, a data result that cannot be decoded) only loses its own
\* display message: each step appends exactly what the message would give
\* without that sub-payload, so siblings and later messages are emitted, and
\* a stream that ends normally carries no stream-level error message.
C4_MalformedIsLocal ==
    [][/\ pos' = pos + 1 => Appended = OutputWithoutMalformed(stream[pos + 1])
       /\ (pc' = "done" /\ failure.kind = "none") =>
             /\ pos' = Len(stream)
             /\ \A t \in FailureTexts, j \in 1..Len(messages') :
                   messages'[j] # StreamErrorMessage(t)
      ]_vars

\* C4 witness: the first of two messages held a chart config that cannot be
\* converted beside an image and an error part; both siblings and the output
\* of the second message have been returned
C4_Witness ==
    /\ pc = "done"
    /\ failure.kind = "none"
    /\ Len(stream) = 2
    /\ MalformedMessage(stream[1])
    /\ stream[1].system_message[1].chart # None
    /\ Len(messages) >= 3
    /\ messages[1].message_type = "chart" /\ messages[1].chart_image # None
    /\ messages[2].message_type = "error"
    /\ messages[3].message_type \in {"text", "sql", "data"}

\* the generated SQL of msg as a data message carries it: None when the
\* message has no data part or an empty generated_sql
SqlOf(msg) ==
    IF \/ msg.system_message = None
       \/ msg.system_message[1].data = None
       \/ msg.system_message[1].data[1].generated_sql = <<>>
    THEN None
    ELSE Some(msg.system_message[1].data[1].generated_sql)

\* the table the data result of msg decodes to, None when there is none
TableOf(msg) ==
    IF \/ msg.user_message.text # <<>>
       \/ msg.system_message = None
       \/ msg.system_message[1].data = None
       \/ msg.system_message[1].data[1].result = None
    THEN None
    ELSE ParseDataResult(msg.system_message[1].data[1].result[1])

\* C5: a data display message carries the generated SQL of the inbound
\* message it comes from (none when that message has none, never that of an
\* earlier message); when the message has SQL s and a result decoding to T,
\* sql(content = s) stands immediately before data(table = T, sqlText = s).
C5_SqlCorrelation ==
    [][pos' = pos + 1 =>
        LET msg == stream[pos + 1]
            seg == Appended
        IN  /\ \A i \in 1..Len(seg) :
                  seg[i].message_type = "data" =>
                      /\ seg[i].sql_query = SqlOf(msg)
                      /\ seg[i].data = TableOf(msg)
                      /\ SqlOf(msg) # None =>
                            /\ i > 1
                            /\ seg[i - 1].message_type = "sql"
                            /\ seg[i - 1].content = SqlOf(msg)[1]
            /\ (TableOf(msg) # None) =>
                  \E i \in 1..Len(seg) :
                      /\ seg[i].message_type = "data"
                      /\ seg[i].data = TableOf(msg)
                      /\ seg[i].data # None
      ]_vars

\* C5 witness: after a message with SQL and a table, a message with a table
\* and no SQL has been parsed; its data message carries no SQL
C5_Witness ==
    /\ pos = 2
    /\ SqlOf(stream[1]) # None /\ TableOf(stream[1]) # None
    /\ SqlOf(stream[2]) = None /\ TableOf(stream[2]) # None
    /\ Len(messages) = 3
    /\ messages[1].message_type = "sql"
    /\ messages[2].message_type = "data" /\ messages[2].sql_query = SqlOf(stream[1])
    /\ messages[3].message_type = "data" /\ messages[3].sql_query = None

\* C6: an inbound message flagged as user-authored with non-empty text gives
\* no display message, whatever else it carries.
C6_UserEchoSuppressed ==
    [][(pos' = pos + 1 /\ stream[pos + 1].user_message.text # <<>>)
          => messages' = messages]_vars

\* C6 witness: a user echo that also carries a system message with an error
\* part has been consumed and nothing was emitted
C6_Witness ==
    /\ pos = 1
    /\ stream[1].user_message.text # <<>>
    /\ stream[1].system_message # None
    /\ stream[1].system_message[1].error # None
    /\ stream[1].system_message[1].error[1].text # <<>>
    /\ stream[1].system_message[1].data # None
    /\ messages = <<>>

\* C7: every chart-kind display message has exactly one of chart_spec and
\* chart_image populated.
C7_ChartExactlyOne ==
    \A i \in 1..Len(messages) :
        messages[i].message_type = "chart" =>
            Populated(messages[i].chart_spec) # Populated(messages[i].chart_image)

\* C7 witness: one message gave a chart from its text, the chart spec of its
\* chart part and the chart image
C7_Witness ==
    /\ OneConsumed
    /\ \E i, j, k \in 1..Len(messages) :
          /\ i < j /\ j < k
          /\ messages[i].message_type = "chart" /\ Populated(messages[i].chart_spec)
          /\ messages[j].message_type = "chart" /\ Populated(messages[j].chart_spec)
          /\ messages[k].message_type = "chart" /\ Populated(messages[k].chart_image)

\* the data result the one consumed message carries, None when it has none
ResultOf(msg) ==
    IF \/ msg.user_message.text # <<>>
       \/ msg.system_message = None
       \/ msg.system_message[1].data = None
    THEN None
    ELSE msg.system_message[1].data[1].result

\* the tables of the data display messages returned so far
Tables == {messages[i].data[1] : i \in {j \in 1..Len(messages) :
                                          messages[j].message_type = "data"}}

\* every source row of d has one of the three shapes the decoder reads
ThreeShapes(d) ==
    /\ d.convertible
    /\ \A i \in 1..Len(d.data) : d.data[i].shape \in {"wrapped", "plain", "list"}
    /\ \A i \in 1..Len(d.formatted_data) :
          d.formatted_data[i].shape \in {"wrapped", "plain", "list"}

\* C8: in every table the decoder returns, whatever the shape of the source
\* rows (variant-wrapped mapping, plain mapping or plain sequence), each row
\* has as many cells as there are columns.
C8_RowsMatchColumns ==
    (OneConsumed /\ ResultOf(stream[1]) # None /\ ThreeShapes(ResultOf(stream[1])[1])) =>
        \A t \in Tables : \A i \in 1..Len(t.rows) : Len(t.rows[i]) = Len(t.columns)

\* the precedence the specification states for unwrapping a cell wrapper
StatedUnwrap(w) ==
    IF Has(w, "stringValue") THEN Get(w, "stringValue", NULL)
    ELSE IF Has(w, "numberValue") THEN Get(w, "numberValue", NULL)
    ELSE IF Has(w, "boolValue") THEN Get(w, "boolValue", NULL)
    ELSE IF Has(w, "integerValue") THEN Get(w, "integerValue", NULL)
    ELSE IF Has(w, "nullValue") THEN NULL
    ELSE IF w = <<>> THEN NULL
    ELSE w[1][2]

\* the value a mapping row holds for column c, null when it holds none
StatedCell(row, c) ==
    IF row.shape = "wrapped"
    THEN (IF Has(row.fields, c) THEN StatedUnwrap(Get(row.fields, c, <<>>)) ELSE NULL)
    ELSE (IF Has(row.items, c) THEN Get(row.items, c, NULL) ELSE NULL)

\* the rows the decoder reads: the primary field, the formatted one when
\* the primary field is empty
SourceRows(d) == IF d.data # <<>> THEN d.data ELSE d.formatted_data

\* d has a schema with at least one column and only mapping rows
MappingRowsUnderSchema(d) ==
    /\ d.convertible
    /\ d.schema.fields # <<>>
    /\ \A i \in 1..Len(SourceRows(d)) : SourceRows(d)[i].shape \in {"wrapped", "plain"}

\* the name the schema declares for each column, col_<index> for a field
\* without one
StatedColumns(d) ==
    [j \in 1..Len(d.schema.fields) |->
        IF Has(d.schema.fields[j], "name")
        THEN Get(d.schema.fields[j], "name", "")
        ELSE ColDefault(j - 1)]

\* C9: for a schema with N columns (N >= 1) and rows given as mappings,
\* variant-wrapped or plain, every decoded row has exactly N cells, cell j
\* being the value the row holds for column j, or null when it holds none.
C9_MappingRowsAligned ==
    (OneConsumed /\ ResultOf(stream[1]) # None
                 /\ MappingRowsUnderSchema(ResultOf(stream[1])[1])) =>
        LET d == ResultOf(stream[1])[1]
            n == Len(d.schema.fields)
        IN  /\ Cardinality(Tables) = 1
            /\ \A t \in Tables :
                  /\ t.columns = StatedColumns(d)
                  /\ Len(t.rows) = Len(SourceRows(d))
                  /\ \A i \in 1..Len(t.rows) :
                        /\ Len(t.rows[i]) = n
                        /\ \A j \in 1..n :
                              t.rows[i][j] = StatedCell(SourceRows(d)[i], t.columns[j])

\* C9 witness: under a two-column schema, a wrapped row without the second
\* column and a plain row without the first have been decoded
C9_Witness ==
    /\ OneConsumed
    /\ ResultOf(stream[1]) # None
    /\ MappingRowsUnderSchema(ResultOf(stream[1])[1])
    /\ Len(ResultOf(stream[1])[1].data) = 2
    /\ ResultOf(stream[1])[1].data[1].shape = "wrapped"
    /\ ResultOf(stream[1])[1].data[2].shape = "plain"
    /\ \E t \in Tables :
          /\ t.columns = <<"a", "b">>
          /\ t.rows = <<<<"str:w", NULL>>, <<NULL, "num:3">>>>

\* d has a schema with columns and primary rows that are all variant-wrapped
WrappedRowsUnderSchema(d) ==
    /\ d.convertible
    /\ d.schema.fields # <<>>
    /\ d.data # <<>>
    /\ \A i \in 1..Len(d.data) : d.data[i].shape = "wrapped"

\* C10: each cell of a variant-wrapped row is unwrapped by the fixed
\* precedence stringValue, numberValue, boolValue, integerValue, then null
\* for nullValue, null for an empty wrapper, else the first value under any
\* other key; a wrapper with stringValue and numberValue gives the string.
C10_UnwrapPrecedence ==
    (OneConsumed /\ ResultOf(stream[1]) # None
                 /\ WrappedRowsUnderSchema(ResultOf(stream[1])[1])) =>
        LET d == ResultOf(stream[1])[1]
        IN  /\ Tables # {}
            /\ \A t \in Tables :
                  \A i \in 1..Len(d.data), j \in 1..Len(t.columns) :
                      t.rows[i][j] =
                          IF Has(d.data[i].fields, t.columns[j])
                          THEN StatedUnwrap(Get(d.data[i].fields, t.columns[j], <<>>))
                          ELSE NULL

\* C10 witness: a wrapper that holds numberValue first and stringValue
\* second has been unwrapped to the string
C10_Witness ==
    /\ OneConsumed
    /\ ResultOf(stream[1]) # None
    /\ WrappedRowsUnderSchema(ResultOf(stream[1])[1])
    /\ Get(ResultOf(stream[1])[1].data[1].fields, "a", <<>>)
          = <<<<"numberValue", "num:9">>, <<"stringValue", "str:9">>>>
    /\ \E t \in Tables : t.rows = <<<<"str:9">>>>

\* the columns and rows the two loops of the decoder leave for d: the schema
\* names, then the primary rows, then the formatted rows when no primary row
\* was appended; ok = FALSE when a row raised
ColumnsAndRows(d) ==
    LET start == [ok |-> TRUE,
                  columns |-> IF d.schema.fields # <<>> THEN StatedColumns(d) ELSE <<>>,
                  rows |-> <<>>]
        primary == DecodeRows(d.data, 1, start, TRUE)
    IN  IF primary.ok /\ primary.rows = <<>>
        THEN DecodeRows(d.formatted_data, 1, primary, FALSE)
        ELSE primary

\* decoding d raises nothing
DecodesQuietly(d) == d.convertible /\ ColumnsAndRows(d).ok

\* C11: when decoding raises no error, the decoder returns nothing exactly
\* when the column list and the row list are both empty at the end, and
\* otherwise returns the table of those columns and rows, which travels in a
\* data display message (also for a schema with columns and zero rows).
C11_EmptyTableSuppression ==
    (OneConsumed /\ ResultOf(stream[1]) # None
                 /\ DecodesQuietly(ResultOf(stream[1])[1])) =>
        LET r == ColumnsAndRows(ResultOf(stream[1])[1])
        IN  IF r.columns = <<>> /\ r.rows = <<>>
            THEN \A i \in 1..Len(messages) : messages[i].message_type # "data"
            ELSE /\ Tables = {[columns |-> r.columns, rows |-> r.rows]}
                 /\ Cardinality({i \in 1..Len(messages) :
                                     messages[i].message_type = "data"}) = 1

\* C11 witness: a schema with two columns and no row at all has given a data
\* display message with an empty row list
C11_Witness ==
    /\ OneConsumed
    /\ ResultOf(stream[1]) # None
    /\ DecodesQuietly(ResultOf(stream[1])[1])
    /\ ResultOf(stream[1])[1].data = <<>>
    /\ ResultOf(stream[1])[1].formatted_data = <<>>
    /\ \E t \in Tables : t.columns = <<"a", "b">> /\ t.rows = <<>>

\* msg is a system message that carries a text part and nothing else
IsTextOnly(msg) ==
    /\ msg.user_message.text = <<>>
    /\ msg.system_message # None
    /\ msg.system_message[1].text # None
    /\ msg.system_message[1].data = None
    /\ msg.system_message[1].chart = None
    /\ msg.system_message[1].analysis = None
    /\ msg.system_message[1].error = None

\* the text of the text part of msg, as the extractor receives it
TextOf(msg) == Join(msg.system_message[1].text[1].parts)

\* the positions of text holding a JSON mapping with a top-level mark or
\* encoding key
QualifyingCandidates(text) ==
    {k \in 1..Len(text) : text[k] \in {"{chart}", "{chart$}"}}

\* C12: when no embedded candidate qualifies (no JSON mapping with a mark or
\* encoding key, also when the text holds the marker tokens in a run that is
\* not JSON or whose braces never balance), the extractor returns no spec
\* together with the original text, unmodified.
C12_NoCandidateKeepsText ==
    (/\ OneConsumed
     /\ IsTextOnly(stream[1])
     /\ Strip(TextOf(stream[1])) # <<>>
     /\ QualifyingCandidates(TextOf(stream[1])) = {}) =>
        messages = <<ChatMessage(TextOf(stream[1]), "text")>>

\* the sentences ending in a colon that can lead in to a chart
LeadIns == {LEAD, TREND}

\* text is a lead-in sentence followed by one fenced chart specification
LeadInThenFenced(text) ==
    /\ Len(text) >= 4
    /\ text[1] \in LeadIns
    /\ \E c \in {"{chart}", "{chart$}"} :
          Strip(SubSeq(text, 2, Len(text))) = <<FENCE, c, FENCE>>

\* C13: when a fenced chart specification preceded by a lead-in sentence
\* ending in a colon (such as "Here's the trend:") is extracted, the text
\* that is returned holds neither the fenced block, nor a fence delimiter,
\* nor the lead-in sentence.
C13_FencedLeavesNoResidue ==
    (/\ OneConsumed
     /\ IsTextOnly(stream[1])
     /\ LeadInThenFenced(TextOf(stream[1]))) =>
        /\ \E i \in 1..Len(messages) :
              messages[i].message_type = "chart" /\ Populated(messages[i].chart_spec)
        /\ \A i \in 1..Len(messages) :
              messages[i].message_type = "text" =>
                  \A k \in 1..Len(messages[i].content) :
                      messages[i].content[k] \notin BraceTokens \cup LeadIns \cup {FENCE}

\* the primary field of d yields at least one row: one of its rows is a
\* mapping or a sequence
PrimaryYieldsRows(d) == \E i \in 1..Len(d.data) : d.data[i].shape # "scalar"

\* msg with the formatted rows of its data result taken away
WithoutFormatted(msg) ==
    DataOnly(msg.system_message[1].data[1].generated_sql,
             [ResultOf(msg)[1] EXCEPT !.formatted_data = <<>>])

\* msg is a system message that carries a data part with a result and
\* nothing else
IsDataOnly(msg) ==
    /\ ResultOf(msg) # None
    /\ msg.system_message[1].text = None
    /\ msg.system_message[1].chart = None
    /\ msg.system_message[1].analysis = None
    /\ msg.system_message[1].error = None

\* C20: the formatted rows are used only when the primary field yields no
\* row: whenever it yields at least one row, even rows of nulls only, the
\* returned rows are those of the primary field and the output is what it
\* would be without the formatted field.
C20_FallbackOnlyOnZeroRows ==
    (OneConsumed /\ IsDataOnly(stream[1])
                 /\ PrimaryYieldsRows(ResultOf(stream[1])[1])) =>
        /\ messages = ParseMessage(WithoutFormatted(stream[1]))
        /\ \A t \in Tables :
              Len(t.rows) = Cardinality({i \in 1..Len(ResultOf(stream[1])[1].data) :
                                            ResultOf(stream[1])[1].data[i].shape # "scalar"})

\* C20 witness: under the schema (a), the primary row {b: 3} has given the
\* one row (null) although the formatted field held a row with a value
\* for a
C20_Witness ==
    /\ OneConsumed
    /\ IsDataOnly(stream[1])
    /\ ResultOf(stream[1])[1].data = <<PlainRow(<<<<"b", "num:3">>>>)>>
    /\ ResultOf(stream[1])[1].formatted_data
          = <<PlainRow(<<<<"a", "str:y">>, <<"b", "num:2">>>>)>>
    /\ \E t \in Tables : t.columns = <<"a">> /\ t.rows = <<<<NULL>>>>

\* the first result of the normalizer, for the specification handed over
Called == cleaned # <<>>

\* the transform list, the encoding and the data section of a specification
TransformOf(spec) == Get(spec, "transform", <<>>)

EncodingOf(spec) == Get(spec, "encoding", <<>>)

DataOf(spec) == Get(spec, "data", <<>>)

Offending(t) ==
    t.shape = "dict" /\ \E k \in 1..Len(t.keys) : t.keys[k] \in {"window", "sort"}

\* C15: if any step of the transform list has a window key or a sort key,
\* the normalized specification has no transform key at all; if no step has
\* either key, the transform list is kept unchanged.
C15_WindowTransformDropped ==
    Called =>
        IF \E i \in 1..Len(TransformOf(caller_spec)) : Offending(TransformOf(caller_spec)[i])
        THEN ~Has(cleaned[1], "transform")
        ELSE /\ Has(cleaned[1], "transform") <=> Has(caller_spec, "transform")
             /\ TransformOf(cleaned[1]) = TransformOf(caller_spec)

\* C15 witness: a list with a window step and a harmless filter step was
\* dropped whole
C15_Witness ==
    /\ Called
    /\ \E i, j \in 1..Len(TransformOf(caller_spec)) :
          /\ Offending(TransformOf(caller_spec)[i])
          /\ ~Offending(TransformOf(caller_spec)[j])
    /\ ~Has(cleaned[1], "transform")

\* the channel c of an encoding, and a channel that is absent
NoAxis == Axis("absent", <<>>)

ChannelOf(spec, c) == Get(EncodingOf(spec), c, NoAxis)

\* C16: for each of the channels x, y, color and theta, the normalized
\* channel has no sort key when the input sort was an empty mapping or null,
\* and keeps its sort value unchanged in every other case.
C16_EmptySortRemoved ==
    Called =>
        \A c \in {"x", "y", "color", "theta"} :
            LET a == ChannelOf(caller_spec, c)
                b == ChannelOf(cleaned[1], c)
            IN  a.shape = "dict" =>
                    IF Has(a.items, "sort")
                       /\ Get(a.items, "sort", "") \in {EMPTY_MAPPING, JSON_NULL}
                    THEN b.shape = "dict" /\ ~Has(b.items, "sort")
                    ELSE b = a

\* C16 witness: x lost its empty sort mapping while y kept "ascending"
C16_Witness ==
    /\ Called
    /\ Get(ChannelOf(caller_spec, "x").items, "sort", "") = EMPTY_MAPPING
    /\ ~Has(ChannelOf(cleaned[1], "x").items, "sort")
    /\ Get(ChannelOf(cleaned[1], "y").items, "sort", "") = "ascending"

\* C17: the normalizer is idempotent: normalizing its own result gives the
\* same specification again; timestamps converted by the first pass are
\* not multiplied a second time.
C17_Idempotent == \A i \in 1..Len(cleaned) : cleaned[i] = cleaned[1]

\* C17 witness: the first pass multiplied timestamps and a second pass ran
C17_Witness ==
    /\ Len(cleaned) >= 2
    /\ DataOf(cleaned[1]) # DataOf(caller_spec)

TurnOf(i) == Cardinality({j \in 1..i : session[j].role = "user"})

\* a dedicated chart message with a chart specification in the turn of i
SiblingChart(i) ==
    \E j \in 1..Len(session) :
        /\ TurnOf(j) = TurnOf(i)
        /\ session[j].message_type = "chart"
        /\ Populated(session[j].chart_spec)

\* the current script run made this draw call for the message at index i
DrawnFor(call, i) ==
    \E k \in 1..Len(drawn) : drawn[k].call = call /\ drawn[k].msg = i

\* C19: whenever the table of a data message is on the page, with charts
\* enabled and more than one row, its fallback chart is skipped exactly when
\* a chart message with a specification exists in the same turn, on first
\* display and on every re-rendering of the history alike: a chart of one
\* turn never suppresses the fallback chart of another turn.
C19_FallbackSkippedExactlyForSiblings ==
    \A i \in 1..Len(session) :
        (/\ DrawnFor("dataframe", i)
         /\ settings.enable_chart_rendering
         /\ Len(session[i].data[1].rows) > 1)
            => (DrawnFor("fallback_chart", i) <=> ~SiblingChart(i))

\* msg with the formatted rows of its data result moved to the primary field
FormattedAsPrimary(msg) ==
    DataOnly(msg.system_message[1].data[1].generated_sql,
             [ResultOf(msg)[1] EXCEPT !.data = ResultOf(msg)[1].formatted_data,
                                      !.formatted_data = <<>>])

\* every formatted row of d is a variant-wrapped mapping, a plain mapping or
\* a plain sequence
FormattedInThreeShapes(d) ==
    \A i \in 1..Len(d.formatted_data) :
        d.formatted_data[i].shape \in {"wrapped", "plain", "list"}

\* C21: the fallback is a retry of the entire extraction: a payload with an
\* empty primary field and the rows R in the formatted field decodes to the
\* same table as the payload with R in the primary field, for rows that are
\* variant-wrapped mappings, plain mappings or plain sequences.
C21_FallbackIsFullRetry ==
    (/\ OneConsumed
     /\ IsDataOnly(stream[1])
     /\ ResultOf(stream[1])[1].data = <<>>
     /\ FormattedInThreeShapes(ResultOf(stream[1])[1]))
        => messages = ParseMessage(FormattedAsPrimary(stream[1]))

\* d can be serialised and every row the decoder reads is a plain mapping
PlainRowsOnly(d) ==
    /\ d.convertible
    /\ \A i \in 1..Len(SourceRows(d)) : SourceRows(d)[i].shape = "plain"

\* C22: the decoded column list is the field names of the schema in declared
\* order when the schema has fields; when it has none, it is the keys of the
\* first row, if there is one, and no later row determines or changes it.
C22_ColumnsFromSchemaOrFirstRow ==
    (OneConsumed /\ ResultOf(stream[1]) # None /\ PlainRowsOnly(ResultOf(stream[1])[1])) =>
        LET d == ResultOf(stream[1])[1]
        IN  \A t \in Tables :
                t.columns = IF d.schema.fields # <<>> THEN StatedColumns(d)
                            ELSE IF SourceRows(d) # <<>> THEN Keys(SourceRows(d)[1].items)
                            ELSE <<>>

\* the literal data rows of a specification; their numbers are counted in
\* units of 10^7, 10 being 1e8 and 300 being 3e9
ValuesOf(spec) == Get(DataOf(spec), "values", <<>>)

\* the field names the data rows use
ChartFields == {"t", "v"}

\* f is the field of a channel x, y or color that is a mapping of type
\* temporal
IsTemporal(spec, f) ==
    \E c \in {"x", "y", "color"} :
        /\ ChannelOf(spec, c).shape = "dict"
        /\ Get(ChannelOf(spec, c).items, "type", "") = "temporal"
        /\ Get(ChannelOf(spec, c).items, "field", "") = f

\* row i of the specification is a mapping that holds a number for f
NumberAt(spec, i, f) ==
    /\ ValuesOf(spec)[i].shape = "dict"
    /\ Has(ValuesOf(spec)[i].items, f)
    /\ Get(ValuesOf(spec)[i].items, f, Str).num

\* the value row i holds for f
ValueAt(spec, i, f) == Get(ValuesOf(spec)[i].items, f, Str).v

\* the rows _fix_temporal_data samples: the first five
Sampled(spec) == {i \in 1..Len(ValuesOf(spec)) : i <= 5}

\* the numbers the sampled rows hold for f
SampledNumbers(spec, f) == {i \in Sampled(spec) : NumberAt(spec, i, f)}

\* every number of f was multiplied by 1000 in the result, resp. none was
AllMultiplied(f) ==
    \A i \in 1..Len(ValuesOf(caller_spec)) :
        NumberAt(caller_spec, i, f) =>
            ValueAt(cleaned[1], i, f) = 1000 * ValueAt(caller_spec, i, f)

NoneChanged(f) ==
    \A i \in 1..Len(ValuesOf(caller_spec)) :
        ValuesOf(cleaned[1])[i] = ValuesOf(caller_spec)[i]
        \/ (/\ ValuesOf(caller_spec)[i].shape = "dict"
            /\ ValuesOf(cleaned[1])[i].shape = "dict"
            /\ Get(ValuesOf(cleaned[1])[i].items, f, Str)
                  = Get(ValuesOf(caller_spec)[i].items, f, Str))

\* C23 as stated: for a temporal field whose sampled rows all hold a value in
\* [1e8, 3e9], bounds included, every value in that range is multiplied by
\* exactly 1000.
C23_ClosedRangeMultiplied ==
    Called =>
        \A f \in ChartFields :
            (/\ IsTemporal(caller_spec, f)
             /\ Sampled(caller_spec) # {}
             /\ \A i \in Sampled(caller_spec) :
                   /\ NumberAt(caller_spec, i, f)
                   /\ 10 <= ValueAt(caller_spec, i, f)
                   /\ ValueAt(caller_spec, i, f) <= 300)
                => \A i \in 1..Len(ValuesOf(caller_spec)) :
                      (/\ NumberAt(caller_spec, i, f)
                       /\ 10 <= ValueAt(caller_spec, i, f)
                       /\ ValueAt(caller_spec, i, f) <= 300)
                          => ValueAt(cleaned[1], i, f) = 1000 * ValueAt(caller_spec, i, f)

\* C23, amended: for a temporal field whose sampled numbers all lie strictly
\* between 1e8 and 3e9, every number of the field is multiplied by exactly
\* 1000; a sampled number equal to 1e8 or to 3e9 prevents the conversion of
\* the field.
C23_OpenRangeMultiplied ==
    Called =>
        \A f \in ChartFields :
            IsTemporal(caller_spec, f) =>
                /\ (/\ SampledNumbers(caller_spec, f) # {}
                    /\ \A i \in SampledNumbers(caller_spec, f) :
                          /\ 10 < ValueAt(caller_spec, i, f)
                          /\ ValueAt(caller_spec, i, f) < 300)
                       => AllMultiplied(f)
                /\ (\E i \in SampledNumbers(caller_spec, f) :
                        ValueAt(caller_spec, i, f) \in {10, 300})
                       => NoneChanged(f)

\* C23 witness: a sampled number of a temporal field was converted
C23_Witness ==
    /\ Called
    /\ \E f \in ChartFields :
          /\ IsTemporal(caller_spec, f)
          /\ \E i \in SampledNumbers(caller_spec, f) :
                ValueAt(cleaned[1], i, f) = 1000 * ValueAt(caller_spec, i, f)

\* a temporal field with a sampled value of 3e9 was left alone
OnBoundLeftAlone ==
    /\ Called
    /\ \E f \in ChartFields :
          /\ IsTemporal(caller_spec, f)
          /\ \E i \in SampledNumbers(caller_spec, f) :
                ValueAt(caller_spec, i, f) = 300 /\ ValueAt(cleaned[1], i, f) = 300

\* C24 as stated: the conversion of a temporal field is applied only if the
\* sampled rows are all numeric and all inside the range; if a sampled row
\* holds a non-numeric or missing value for the field, no value of the field
\* is changed.
C24_NonNumericBlocks ==
    Called =>
        \A f \in ChartFields :
            (\E i \in Sampled(caller_spec) : ~NumberAt(caller_spec, i, f))
                => NoneChanged(f)

\* C24, amended: the conversion of a temporal field is applied only if the
\* sampled rows hold at least one number for the field and all the numbers
\* they hold lie strictly inside the range; sampled rows with a non-numeric
\* or missing value are skipped by the test, they do not prevent the
\* conversion and are themselves left as they are.
C24_NumbersDecide ==
    Called =>
        \A f \in ChartFields :
            /\ (\/ ~IsTemporal(caller_spec, f)
                \/ SampledNumbers(caller_spec, f) = {}
                \/ \E i \in SampledNumbers(caller_spec, f) :
                      ~(10 < ValueAt(caller_spec, i, f) /\ ValueAt(caller_spec, i, f) < 300))
                   => NoneChanged(f)
            /\ (/\ IsTemporal(caller_spec, f)
                /\ SampledNumbers(caller_spec, f) # {}
                /\ \A i \in SampledNumbers(caller_spec, f) :
                      10 < ValueAt(caller_spec, i, f) /\ ValueAt(caller_spec, i, f) < 300)
                   => AllMultiplied(f)
            /\ \A i \in 1..Len(ValuesOf(caller_spec)) :
                  ~NumberAt(caller_spec, i, f) =>
                      \/ ValuesOf(cleaned[1])[i] = ValuesOf(caller_spec)[i]
                      \/ Get(ValuesOf(cleaned[1])[i].items, f, Str)
                            = Get(ValuesOf(caller_spec)[i].items, f, Str)

\* C24 witness: a sampled row without a number for the field, and the
\* number of another sampled row converted all the same
C24_Witness ==
    /\ Called
    /\ \E f \in ChartFields :
          /\ \E i \in Sampled(caller_spec) : ~NumberAt(caller_spec, i, f)
          /\ \E i \in SampledNumbers(caller_spec, f) :
                ValueAt(cleaned[1], i, f) = 1000 * ValueAt(caller_spec, i, f)

\* C29: within one call each number of a temporal field ends up unchanged
\* or multiplied by 1000 exactly once, never by 1000000, also when several
\* temporal channels name the field; and within one field either all the
\* numbers are multiplied or none is.
C29_OnceAndAllOrNone ==
    Called =>
        \A f \in ChartFields :
            /\ \A i \in 1..Len(ValuesOf(caller_spec)) :
                  NumberAt(caller_spec, i, f) =>
                      /\ NumberAt(cleaned[1], i, f)
                      /\ ValueAt(cleaned[1], i, f) \in
                            {ValueAt(caller_spec, i, f), 1000 * ValueAt(caller_spec, i, f)}
            /\ AllMultiplied(f) \/ NoneChanged(f)

\* C29 witness: x and color both name the field t as temporal, and its
\* numbers were multiplied once
C29_Witness ==
    /\ Called
    /\ Get(ChannelOf(caller_spec, "x").items, "field", "") = "t"
    /\ Get(ChannelOf(caller_spec, "x").items, "type", "") = "temporal"
    /\ Get(ChannelOf(caller_spec, "color").items, "field", "") = "t"
    /\ Get(ChannelOf(caller_spec, "color").items, "type", "") = "temporal"
    /\ \E i \in 1..Len(ValuesOf(caller_spec)) :
          /\ NumberAt(caller_spec, i, "t")
          /\ ValueAt(cleaned[1], i, "t") = 1000 * ValueAt(caller_spec, i, "t")

C26_RequestNamesConversationAgent ==
    (request.n > 0 /\ request.chat.mode = "stateful") =>
        request.chat.data_agent = conversations[request.chat.conversation[1]]

\* C27: a session holds a conversation handle only while its agent is
\* marked as created.
C27_HandleOnlyWithAgent ==
    \A s \in Sessions :
        session_state[s].conversation_name # None =>
            session_state[s].agent_created

\* C27 witness: ensure_conversation created the agent and the conversation
\* on a prompt, and the session holds the handle the request named
C27_Witness ==
    /\ request.n > 0
    /\ request.chat.mode = "stateful"
    /\ session_state[request.session].conversation_name =
           request.chat.conversation
    /\ session_state[request.session].agent_created
    /\ session_state[request.session].agent_id # DefaultAgentId

C30_SessionsIsolated ==
    [][/\ \A s \in Sessions :
              (session_state[s].messages # <<>>
               /\ session_state'[s].messages = <<>>) =>
                  \A t \in Sessions \ {s} : session_state'[t] = session_state[t]
       /\ request'.n # request.n =>
              request'.chat.mode = session_state[request'.session].mode]_vars

=============================================================================
